---- MODULE Spec2Model ----
(***************************************************************************)
(* ForerunnerDB views (js/lib/View.js): materialised views kept live       *)
(* against collections through the chain-reaction graph, the view          *)
(* registry of the database and the view life cycle.                       *)
(*                                                                         *)
(* View.js is modelled from its source.  Collection, ReactorIO,            *)
(* ActiveBucket and the mixins it calls are not part of the source tree    *)
(* and are modelled from the specification (sections 4.B to 4.E).          *)
(***************************************************************************)
EXTENDS Integers, Sequences, FiniteSets, TLC

VARIABLES
    coll,   \* every collection: source collections, private and public data
    view,   \* every View object ever constructed
    reg,    \* Db._view, the registry: view name -> View
    out,    \* what the last call returned or threw
    btree,  \* a BinaryTree, the documents inserted into it and its last call
    settings \* the query object of a view without a source and its last queryAdd

vars == <<coll, view, reg, out, btree, settings>>

----------------------------------------------------------------------------
(* Bounds of the model *)

MaxId == 2          \* primary-key values are 1..MaxId
MaxVal == 2         \* values of the field n are 0..MaxVal
MaxViews == 2       \* View objects that can be constructed
MaxBucket == 3      \* entries an active bucket may hold
MaxKey == 1         \* values of the index fields of a BinaryTree are 0..MaxKey
MaxDocs == 3        \* documents inserted into a BinaryTree
MaxPage == 5        \* the largest page number and page count

Ids == 1..MaxId
Vals == 0..MaxVal
ViewIds == 1..MaxViews
None == <<"none", 0>>

SrcColls == {<<"S", 1>>, <<"S", 2>>}
Priv(v) == <<"P", v>>
Pub(v) == <<"U", v>>
CollIds == SrcColls \cup {Priv(v) : v \in ViewIds} \cup {Pub(v) : v \in ViewIds}

PkNames == {"_id", "key"}
Names == {"a", ""}
Transforms == {"none", "id", "inc"}

\* A document: k is the value of its primary-key field, n a data field.
Doc(k, n) == [k |-> k, n |-> n]
Docs == {Doc(k, n) : k \in Ids, n \in Vals}

----------------------------------------------------------------------------
(* Queries, updates, options and chain packets *)

\* A query object: its first key as t, f, v, ids and its further keys, each a
\* query of one key, in and (in the order the keys were added)
Q(t, f, v, ids) == [t |-> t, f |-> f, v |-> v, ids |-> ids, and |-> <<>>]
NoQuery == Q("none", "", 0, {})                \* undefined
QAll == Q("all", "", 0, {})                    \* {}
QGe(x) == Q("nGe", "n", x, {})                 \* {n: {$gte: x}}
QLe(x) == Q("nLe", "n", x, {})                 \* {n: {$lte: x}}
QField(f, x) == Q("key", f, x, {})             \* {f: x}
QOr(f, ids) == Q("or", f, 0, ids)              \* {$or: [{f: id}, ...]}
QSub(t, name) == Q(t, name, 0, {})             \* {t: {$from: name}}, "" for no $from
SubQueries == {"$findSub", "$findSubOne"}

Upd(n) == [n |-> n]                            \* {n: n}

NoOptions == [defined |-> FALSE, orderBy |-> 0]
Options(dir) == [defined |-> TRUE, orderBy |-> dir]

Packet(type, data, single, query, upd, pk) ==
    [type |-> type, data |-> data, single |-> single, query |-> query,
     upd |-> upd, pk |-> pk]
InsertPacket(data, single) == Packet("insert", data, single, NoQuery, Upd(0), "")
UpdatePacket(query, upd) == Packet("update", <<>>, FALSE, query, upd, "")
RemovePacket(query) == Packet("remove", <<>>, FALSE, query, Upd(0), "")
SetDataPacket(data) == Packet("setData", data, FALSE, NoQuery, Upd(0), "")
PrimaryKeyPacket(pk) == Packet("primaryKey", <<>>, FALSE, NoQuery, Upd(0), pk)

----------------------------------------------------------------------------
(* Sequence helpers *)

\* document d satisfies the one key of q
Holds(d, q, pk) ==
    CASE q.t = "none" -> TRUE
      [] q.t = "all" -> TRUE
      [] q.t = "nGe" -> d.n >= q.v
      [] q.t = "nLe" -> d.n <= q.v
      [] q.t = "key" -> q.f = pk /\ d.k = q.v
      [] q.t = "or" -> q.f = pk /\ d.k \in q.ids
      [] OTHER -> FALSE

RECURSIVE Filter(_, _, _)
Filter(s, q, pk) ==
    IF s = <<>> THEN <<>>
    ELSE LET d == Head(s)
             keep == /\ Holds(d, q, pk)
                     /\ \A i \in 1..Len(q.and) : Holds(d, q.and[i], pk)
         IN (IF keep THEN <<d>> ELSE <<>>) \o Filter(Tail(s), q, pk)

Match(d, q, pk) == Filter(<<d>>, q, pk) # <<>>

\* arr.splice(index, 0, d) with a zero-based index
SpliceIn(s, index, d) ==
    LET i == IF index > Len(s) THEN Len(s) ELSE IF index < 0 THEN 0 ELSE index
    IN SubSeq(s, 1, i) \o <<d>> \o SubSeq(s, i + 1, Len(s))

\* arr.splice(index, 1) with a zero-based index; -1 addresses the last element
SpliceOut(s, index) ==
    LET i == IF index < 0 THEN Len(s) + index ELSE index
    IN IF i < 0 \/ i >= Len(s) THEN s
       ELSE SubSeq(s, 1, i) \o SubSeq(s, i + 2, Len(s))

ElemAt(s, index) ==
    LET i == IF index < 0 THEN Len(s) + index ELSE index IN s[i + 1]

\* arr.indexOf(item): the documents of a collection are told apart by key
RECURSIVE IndexFrom(_, _, _)
IndexFrom(s, k, i) ==
    IF i > Len(s) THEN -1
    ELSE IF s[i].k = k THEN i - 1 ELSE IndexFrom(s, k, i + 1)
IndexOf(s, k) == IndexFrom(s, k, 1)

HasKey(s, k) == \E i \in 1..Len(s) : s[i].k = k
KeysOf(s) == {s[i].k : i \in 1..Len(s)}
DocOf(s, k) == s[IndexOf(s, k) + 1]

\* compare(a, b) under a direction: < 0, 0 or > 0
Compare(a, b, dir) == IF dir >= 0 THEN a.n - b.n ELSE b.n - a.n

\* number of documents of s that sort at or before d
CountBefore(s, d, dir) == Cardinality({i \in 1..Len(s) : Compare(s[i], d, dir) <= 0})

RECURSIVE SortBy(_, _)
SortBy(s, dir) ==
    IF s = <<>> \/ dir = 0 THEN s
    ELSE LET rest == SortBy(SubSeq(s, 1, Len(s) - 1), dir)
             d == s[Len(s)]
         IN SpliceIn(rest, CountBefore(rest, d, dir), d)

Sorted(s, dir) == \A i \in 1..(Len(s) - 1) : Compare(s[i], s[i + 1], dir) <= 0

\* the documents of a sequence as a bag (multiset)
BagOf(s) == [d \in {s[i] : i \in 1..Len(s)} |-> Cardinality({i \in 1..Len(s) : s[i] = d})]

\* dataIn / dataOut functions: nothing, identity, or one that rewrites n
Transform(t, d) == IF t = "inc" THEN [d EXCEPT !.n = d.n + 1] ELSE d
RECURSIVE TransformAll(_, _)
TransformAll(t, s) ==
    IF s = <<>> THEN <<>> ELSE <<Transform(t, Head(s))>> \o TransformAll(t, Tail(s))
TransformUpdate(t, u) == IF t = "inc" THEN Upd(u.n + 1) ELSE u

----------------------------------------------------------------------------
(* The objects *)

\* A Collection: its documents, primary-key name, the _view back-reference
\* list, the listeners of its drop event, its chain listeners (ReactorIO
\* nodes, in registration order) and its transform settings.
NewCollection ==
    [data |-> <<>>, pk |-> "_id", view |-> <<>>, dropped |-> FALSE,
     dropL |-> <<>>, chain |-> <<>>, tIn |-> "none", tOut |-> "none"]

NoBucket == [present |-> FALSE, dir |-> 0, items |-> <<>>]

\* A View object.  priv, qs, db, ioRef, pubRef say whether the fields
\* _privateData, _querySettings, _db, _io, _publicData are present.
NoView ==
    [exists |-> FALSE, name |-> "", state |-> "undefined", from |-> None,
     ioRef |-> FALSE, query |-> NoQuery, options |-> NoOptions,
     priv |-> FALSE, qs |-> FALSE, db |-> FALSE, bucket |-> NoBucket,
     tEnabled |-> FALSE, tIn |-> "none", tOut |-> "none", pubRef |-> FALSE,
     tIoRef |-> FALSE]

SourceIoOf(v) == <<"V", v>>     \* the ReactorIO created by view.from()
MirrorIoOf(v) == <<"T", v>>     \* the ReactorIO created by view.transform()
InterceptIoOf(v) == <<"X", v>>  \* a ReactorIO into v that consumes every packet

\* what a callback of drop() finds when it is invoked: its arguments, the
\* view's state, whether the source ReactorIO, the private and the public
\* collection are dropped, whether the registry holds the view, the drop
\* events emitted so far, the references the view still holds
NotSeen == [called |-> FALSE, args |-> <<>>, state |-> "", io |-> FALSE,
            priv |-> FALSE, pub |-> FALSE, registered |-> FALSE, events |-> 0,
            from |-> None, refs |-> {}]

\* the last call: its name, the view it was made on or returned, what it
\* returned or threw, the drop events it emitted, the callbacks it invoked,
\* the packets the chain handlers of views received (their number, and each
\* with its view), the packets collections sent (each with its collection),
\* what a callback of drop() found, the create events the database emitted,
\* the packets the sink of a mirror ReactorIO received (each with the sink)
NoOut == [op |-> "", v |-> 0, ret |-> "", err |-> "", events |-> 0,
          callbacks |-> 0, received |-> 0, packets |-> <<>>, sent |-> <<>>,
          seen |-> NotSeen, creates |-> 0, forwarded |-> <<>>]

World == [coll |-> coll, view |-> view, reg |-> reg, out |-> out]
Raise(w, what) == [w EXCEPT !.out.err = what]
Failed(w) == w.out.err # ""

isDropped(w, v) == w.view[v].state = "dropped"

----------------------------------------------------------------------------
(* Collection (interface of section 4.E) *)

RECURSIVE ChainSend(_, _, _)

CollFind(w, c, q, o) ==
    LET cr == w.coll[c]
    IN TransformAll(cr.tOut, SortBy(Filter(cr.data, q, cr.pk), o.orderBy))

\* what to do to self to match other, under the shared primary key
Diff(self, other) ==
    LET New(d) == ~HasKey(self, d.k)
        Changed(d) == HasKey(self, d.k) /\ DocOf(self, d.k) # d
        Gone(d) == ~HasKey(other, d.k)
    IN [insert |-> SelectSeq(other, New), update |-> SelectSeq(other, Changed),
        remove |-> SelectSeq(self, Gone)]

\* _insertHandle on an array: item i goes to index + i unless its key is taken
RECURSIVE InsertEach(_, _, _, _, _)
InsertEach(data, docs, i, index, inserted) ==
    IF i > Len(docs) THEN [data |-> data, inserted |-> inserted]
    ELSE IF HasKey(data, docs[i].k)
         THEN InsertEach(data, docs, i + 1, index, inserted)
         ELSE InsertEach(SpliceIn(data, index + i - 1, docs[i]), docs, i + 1, index,
                         Append(inserted, docs[i]))

CollInsertHandle(w, c, docs, single, index) ==
    LET r == InsertEach(w.coll[c].data, docs, 1, index, <<>>)
        w1 == [w EXCEPT !.coll[c].data = r.data]
    IN IF r.inserted = <<>> THEN w1
       ELSE ChainSend(w1, c, InsertPacket(r.inserted, single))

CollInsert(w, c, docs, single) ==
    CollInsertHandle(w, c, TransformAll(w.coll[c].tIn, docs), single,
                     Len(w.coll[c].data))

\* the documents of s that match q take the value n
RECURSIVE SetField(_, _, _, _)
SetField(s, q, pk, n) ==
    IF s = <<>> THEN <<>>
    ELSE <<IF Match(Head(s), q, pk) THEN [Head(s) EXCEPT !.n = n] ELSE Head(s)>>
         \o SetField(Tail(s), q, pk, n)

\* update(query, update): returns the changed documents
CollUpdate(w, c, q, u) ==
    LET cr == w.coll[c]
        u1 == TransformUpdate(cr.tIn, u)
        Hit(d) == Match(d, q, cr.pk) /\ d.n # u1.n
        new == SetField(cr.data, q, cr.pk, u1.n)
        updated == SetField(SelectSeq(cr.data, Hit), q, cr.pk, u1.n)
        w1 == [w EXCEPT !.coll[c].data = new]
    IN [w |-> IF updated = <<>> THEN w1 ELSE ChainSend(w1, c, UpdatePacket(q, u)),
        updated |-> updated]

CollRemove(w, c, q) ==
    LET cr == w.coll[c]
        Stay(d) == ~Match(d, q, cr.pk)
        w1 == [w EXCEPT !.coll[c].data = SelectSeq(cr.data, Stay)]
    IN IF SelectSeq(cr.data, Stay) = cr.data THEN w1
       ELSE ChainSend(w1, c, RemovePacket(q))

CollSetData(w, c, docs) ==
    LET w1 == [w EXCEPT !.coll[c].data = TransformAll(w.coll[c].tIn, docs)]
    IN ChainSend(w1, c, SetDataPacket(docs))

CollPrimaryKey(w, c, pk) ==
    IF w.coll[c].pk = pk THEN w
    ELSE ChainSend([w EXCEPT !.coll[c].pk = pk], c, PrimaryKeyPacket(pk))

\* _updateSpliceMove(arr, indexFrom, indexTo)
UpdateSpliceMove(arr, indexFrom, indexTo) ==
    IF arr = <<>> THEN arr
    ELSE SpliceIn(SpliceOut(arr, indexFrom), indexTo, ElemAt(arr, indexFrom))

----------------------------------------------------------------------------
(* ActiveBucket (section 4.B) *)

NewBucket(dir) == [present |-> TRUE, dir |-> dir, items |-> <<>>]
BucketIndex(b, d) == CountBefore(b.items, d, b.dir)
BucketInsert(b, d) == [b EXCEPT !.items = SpliceIn(@, BucketIndex(b, d), d)]
BucketRemove(b, d) ==
    IF HasKey(b.items, d.k) THEN [b EXCEPT !.items = SpliceOut(@, IndexOf(@, d.k))]
    ELSE b

----------------------------------------------------------------------------
(* View.prototype._chainHandler *)

\* the insert case under $orderBy: one activeBucket.insert per document, then
\* _insertHandle(chainPacket.data, insertIndex) with the whole payload
RECURSIVE OrderedInsert(_, _, _, _)
OrderedInsert(w, v, arr, index) ==
    IF index > Len(arr) \/ Failed(w) THEN w
    ELSE IF ~w.view[v].bucket.present THEN Raise(w, "TypeError")
    ELSE LET b == w.view[v].bucket
             insertIndex == BucketIndex(b, arr[index])
             w1 == [w EXCEPT !.view[v].bucket = BucketInsert(b, arr[index])]
         IN IF ~w.view[v].priv THEN Raise(w1, "TypeError")
            ELSE OrderedInsert(CollInsertHandle(w1, Priv(v), arr, FALSE, insertIndex),
                               v, arr, index + 1)

\* the update case under $orderBy: each changed document leaves the bucket,
\* enters it again and is moved when its index changed
RECURSIVE ReorderUpdated(_, _, _, _)
ReorderUpdated(w, v, updates, index) ==
    IF index > Len(updates) \/ Failed(w) THEN w
    ELSE IF ~w.view[v].bucket.present THEN Raise(w, "TypeError")
    ELSE LET item == updates[index]
             b1 == BucketRemove(w.view[v].bucket, item)
             data == w.coll[Priv(v)].data
             currentIndex == IndexOf(data, item.k)
             insertIndex == BucketIndex(b1, item)
             moved == IF currentIndex # insertIndex
                      THEN UpdateSpliceMove(data, currentIndex, insertIndex)
                      ELSE data
             w1 == [w EXCEPT !.view[v].bucket = BucketInsert(b1, item),
                             !.coll[Priv(v)].data = moved]
         IN ReorderUpdated(w1, v, updates, index + 1)

Ordered(w, v) == w.view[v].options.defined /\ w.view[v].options.orderBy # 0

\* r is what privateData.update returned: the state and the updated documents
Reordered(r, v, ordered) ==
    IF ordered THEN ReorderUpdated(r.w, v, r.updated, 1) ELSE r.w

\* this._from, this._querySettings and this._privateData are read with no
\* test: a reference that drop() or _collectionDropped deleted throws a
\* TypeError at the statement that reads it
ChainHandlerCases(w, v, p) ==
    LET vw == w.view[v] IN
    IF p.type = "setData" THEN
        IF vw.from = None \/ ~vw.qs \/ ~vw.priv THEN Raise(w, "TypeError")
        ELSE CollSetData(w, Priv(v), CollFind(w, vw.from, vw.query, vw.options))
    ELSE IF p.type = "insert" THEN
        IF ~vw.qs THEN Raise(w, "TypeError")
        ELSE IF Ordered(w, v) THEN OrderedInsert(w, v, p.data, 1)
        ELSE IF ~vw.priv THEN Raise(w, "TypeError")
        ELSE CollInsertHandle(w, Priv(v), p.data, FALSE, Len(w.coll[Priv(v)].data))
    ELSE IF p.type = "update" THEN
        IF ~vw.priv THEN Raise(w, "TypeError")
        ELSE IF ~vw.qs
        THEN Raise(CollUpdate(w, Priv(v), p.query, p.upd).w, "TypeError")
        ELSE Reordered(CollUpdate(w, Priv(v), p.query, p.upd), v, Ordered(w, v))
    ELSE IF p.type = "remove" THEN
        IF ~vw.priv THEN Raise(w, "TypeError") ELSE CollRemove(w, Priv(v), p.query)
    ELSE w

\* one packet arrives at View.prototype._chainHandler
ViewChainHandler(w, v, p) ==
    IF Failed(w) THEN w
    ELSE ChainHandlerCases([w EXCEPT !.out.received = @ + 1,
                                     !.out.packets = Append(@, <<v, p>>)], v, p)

\* ReactorIO: a packet goes on to the sink unless the transform function
\* returned true for it
ReactorIoAlways(w, consumed, v, p) == ViewChainHandler(w, v, p)

ReactorIoForward(w, consumed, v, p) ==
    IF consumed THEN w ELSE ViewChainHandler(w, v, p)

\* a ReactorIO into view v whose transform function returns true for every
\* packet and emits nothing
Interceptor(w, v, p) == ReactorIoForward(w, TRUE, v, p)

----------------------------------------------------------------------------
(* The transform function of the ReactorIO that View.prototype.from creates *)

\* one update packet per element of diff.update
RECURSIVE SendUpdates(_, _, _, _, _)
SendUpdates(w, v, docs, pk, i) ==
    IF i > Len(docs) THEN w
    ELSE SendUpdates(ViewChainHandler(w, v,
                         UpdatePacket(QField(pk, docs[i].k), Upd(docs[i].n))),
                     v, docs, pk, i + 1)

\* the key each clause of the emitted remove query is written under
RemoveClauseField(pk) == "_id"

SendRemove(w, v, docs, pk) ==
    IF docs = <<>> THEN w
    ELSE ViewChainHandler(w, v, RemovePacket(QOr(RemoveClauseField(pk), KeysOf(docs))))

\* a variant that passes the insert packet on as it came
GateInsertUnfiltered(w, v, p) == ViewChainHandler(w, v, p)

\* the insert branch: the documents that match go on in one insert packet
GateInsert(w, v, p) ==
    IF Filter(p.data, w.view[v].query, w.coll[Priv(v)].pk) # <<>>
    THEN ViewChainHandler(w, v,
             InsertPacket(Filter(p.data, w.view[v].query, w.coll[Priv(v)].pk),
                          p.single))
    ELSE w

\* the update branch with a diff whose insert or remove part is not empty
SendDiff(w, v, diff, pk) ==
    SendRemove(
        SendUpdates(IF diff.insert # <<>>
                    THEN ViewChainHandler(w, v, InsertPacket(diff.insert, FALSE))
                    ELSE w,
                    v, diff.update, pk, 1),
        v, diff.remove, pk)

\* the update branch, diff the result of privateData.diff(from.subset(..))
GateDiff(w, v, p, diff) ==
    IF diff.insert # <<>> \/ diff.remove # <<>>
    THEN SendDiff(w, v, diff, w.coll[Priv(v)].pk)
    ELSE ReactorIoForward(w, FALSE, v, p)

GateUpdate(w, v, p) ==
    IF w.view[v].from = None THEN Raise(w, "TypeError")
    ELSE GateDiff(w, v, p,
                  Diff(w.coll[Priv(v)].data,
                       CollFind(w, w.view[v].from, w.view[v].query,
                                w.view[v].options)))

\* the view is not dropped and has a constraining query
Gated(w, v) == ~isDropped(w, v) /\ w.view[v].query # NoQuery

\* a gate that answers every packet other than an insert with the diff
QueryGateDiffAll(w, v, p) ==
    IF Gated(w, v) /\ p.type = "insert" THEN GateInsert(w, v, p)
    ELSE IF Gated(w, v) THEN GateUpdate(w, v, p)
    ELSE ReactorIoForward(w, FALSE, v, p)

QueryGate(w, v, p) ==
    IF Gated(w, v) /\ p.type = "insert" THEN GateInsert(w, v, p)
    ELSE IF Gated(w, v) /\ p.type = "update" THEN GateUpdate(w, v, p)
    ELSE ReactorIoForward(w, FALSE, v, p)

----------------------------------------------------------------------------
(* The transform function of the ReactorIO that View.prototype.transform creates *)

\* the sink of a ReactorIO receives a packet
SinkReceive(w, c, p) == [w EXCEPT !.out.forwarded = Append(@, <<c, p>>)]

\* the mutation the transform function applies to the public collection
MirrorApply(w, v, p) ==
    IF p.type = "primaryKey" THEN CollPrimaryKey(w, Pub(v), p.pk)
    ELSE IF p.type = "setData" THEN CollSetData(w, Pub(v), p.data)
    ELSE IF p.type = "insert" THEN CollInsert(w, Pub(v), p.data, p.single)
    ELSE IF p.type = "update" THEN CollUpdate(w, Pub(v), p.query, p.upd).w
    ELSE IF p.type = "remove" THEN CollRemove(w, Pub(v), p.query)
    ELSE w

\* this.chainSend(type, data) at the end of each case
MirrorSend(w, v, p) == IF Failed(w) THEN w ELSE SinkReceive(w, Pub(v), p)

\* every case ends with break and the function returns undefined, so the
\* ReactorIO goes on to forward the packet to its sink
MirrorForward(w, v, p) == IF Failed(w) THEN w ELSE SinkReceive(w, Pub(v), p)

MirrorIo(w, v, p) ==
    IF Failed(w) THEN w
    ELSE MirrorForward(MirrorSend(MirrorApply(w, v, p), v, p), v, p)

----------------------------------------------------------------------------
(* Events and ReactorIO plumbing *)

\* remove the first occurrence of x from a list (off, unChain, _view.splice)
RECURSIVE RemoveFirst(_, _)
RemoveFirst(s, x) ==
    IF s = <<>> THEN s
    ELSE IF Head(s) = x THEN Tail(s) ELSE <<Head(s)>> \o RemoveFirst(Tail(s), x)

Contains(s, x) == \E i \in 1..Len(s) : s[i] = x
Occurrences(s, x) == Cardinality({i \in 1..Len(s) : s[i] = x})

\* new ReactorIO(source, sink, fn): the node subscribes to the source
IoCreate(w, c, io) == [w EXCEPT !.coll[c].chain = Append(@, io)]

\* ReactorIO.drop(): the node leaves the chain of its source
IoDrop(w, io) ==
    [w EXCEPT !.coll = [c \in CollIds |-> [w.coll[c] EXCEPT !.chain = RemoveFirst(@, io)]]]

IoLive(w, io) == \E c \in CollIds : Contains(w.coll[c].chain, io)

\* a variant that leaves _from in place
CollectionDroppedKept(w, ls, i) == w

\* View.prototype._collectionDropped, run for every listener of a drop event
RECURSIVE CollectionDropped(_, _, _)
CollectionDropped(w, ls, i) ==
    IF i > Len(ls) THEN w
    ELSE CollectionDropped([w EXCEPT !.view[ls[i]].from = None], ls, i + 1)

\* Collection.drop(): the state becomes dropped and the drop event is emitted
CollDrop(w, c) ==
    IF w.coll[c].dropped THEN w
    ELSE CollectionDropped([w EXCEPT !.coll[c].dropped = TRUE], w.coll[c].dropL, 1)

\* Collection.prototype._removeView
RemoveView(w, c, v) == [w EXCEPT !.coll[c].view = RemoveFirst(@, v)]

----------------------------------------------------------------------------
(* View: query settings, refresh, active bucket *)

\* View.prototype.publicData: the collection reads go to, None when the
\* field it returns is missing
publicData(w, v) ==
    IF w.view[v].tEnabled
    THEN (IF w.view[v].pubRef THEN Pub(v) ELSE None)
    ELSE (IF w.view[v].priv THEN Priv(v) ELSE None)

RECURSIVE BucketFill(_, _, _)
BucketFill(b, arr, i) ==
    IF i > Len(arr) THEN b ELSE BucketFill(BucketInsert(b, arr[i]), arr, i + 1)

\* a call that has thrown does not get here
rebuildActiveBucket(w, v, orderBy) ==
    IF Failed(w) THEN w
    ELSE IF orderBy # 0
    THEN IF ~w.view[v].priv THEN Raise(w, "TypeError")
         ELSE [w EXCEPT !.view[v].bucket =
                  BucketFill(NewBucket(orderBy), w.coll[Priv(v)].data, 1)]
    ELSE [w EXCEPT !.view[v].bucket = NoBucket]

\* refreshResults = this._from.find(query, options); privateData.insert(refreshResults)
InsertFound(w, v, vw) ==
    IF Failed(w) THEN w
    ELSE IF ~vw.qs THEN Raise(w, "TypeError")
    ELSE CollInsert(w, Priv(v), CollFind(w, vw.from, vw.query, vw.options), FALSE)

\* the rest of refresh, w1 the state after the data was fetched again
RefreshEnd(w1, v, vw, noPublic) ==
    IF Failed(w1) THEN w1
    ELSE IF vw.from # None /\ noPublic THEN Raise(w1, "TypeError")
    ELSE IF ~vw.qs THEN Raise(w1, "TypeError")
    ELSE rebuildActiveBucket(w1, v, IF vw.options.defined THEN vw.options.orderBy ELSE 0)

refresh(w, v) ==
    LET vw == w.view[v]
    IN IF vw.from # None /\ ~vw.priv THEN Raise(w, "TypeError")
       ELSE RefreshEnd(IF vw.from # None
                       THEN InsertFound(CollRemove(w, Priv(v), NoQuery), v, vw)
                       ELSE w,
                       v, vw, publicData(w, v) = None)

\* View.prototype.emit goes through _privateData
emit(w, v) == IF w.view[v].priv THEN w ELSE Raise(w, "TypeError")

\* a variant that refreshes whatever the refresh argument is
RefreshAlways(w, v, doRefresh) == refresh(w, v)

\* View.prototype.query, $main
RefreshIf(w, v, doRefresh) == IF doRefresh THEN refresh(w, v) ELSE w

EmitIf(w, v, changed) == IF ~Failed(w) /\ changed THEN emit(w, v) ELSE w

\* a query with $findSub or $findSubOne whose $from is unset
NeedsFrom(q) == q.t \in SubQueries /\ q.f = ""

\* this._privateData.name()
PrivateName(w, v) == w.view[v].name \o "_internalPrivate"

\* query.$findSub.$from = this._privateData.name()
WithFrom(w, v, q) == IF NeedsFrom(q) THEN [q EXCEPT !.f = PrivateName(w, v)] ELSE q

query(w, v, q, o, doRefresh) ==
    IF (q # NoQuery \/ o # NoOptions) /\ ~w.view[v].qs THEN Raise(w, "TypeError")
    ELSE IF NeedsFrom(q) /\ ~w.view[v].priv
    THEN Raise([w EXCEPT !.view[v].query = q], "TypeError")
    ELSE EmitIf(RefreshIf([w EXCEPT !.view[v].query = IF q # NoQuery
                                                      THEN WithFrom(w, v, q) ELSE @,
                                    !.view[v].options = IF o # NoOptions THEN o ELSE @],
                          v, (q # NoQuery \/ o # NoOptions) /\ doRefresh),
                v, q # NoQuery \/ o # NoOptions)

\* View.prototype.queryData: the same steps as $main of query
queryData(w, v, q, o, doRefresh) == query(w, v, q, o, doRefresh)

\* the name of the key of a query of one key
KeyOf(c) ==
    IF c.t \in {"nGe", "nLe"} THEN "n"
    ELSE IF c.t = "key" THEN c.f
    ELSE IF c.t = "or" THEN "$or"
    ELSE c.t

\* the keys of a query object with their values, in order; undefined and {}
\* have none
Clauses(q) ==
    IF q.t \in {"none", "all"} THEN <<>>
    ELSE <<[q EXCEPT !.and = <<>>]>> \o q.and

\* the query object that holds the keys cs
FromClauses(cs) == IF cs = <<>> THEN QAll ELSE [Head(cs) EXCEPT !.and = Tail(cs)]

\* for (i in obj) if (query[i] === undefined || overwrite !== false)
\* query[i] = obj[i], for the keys of obj from the i-th on
RECURSIVE PutClauses(_, _, _, _)
PutClauses(cs, ps, i, overwrite) ==
    IF i > Len(ps) THEN cs
    ELSE IF \A j \in 1..Len(cs) : KeyOf(cs[j]) # KeyOf(ps[i])
    THEN PutClauses(Append(cs, ps[i]), ps, i + 1, overwrite)
    ELSE IF overwrite
    THEN PutClauses([j \in 1..Len(cs) |->
                        IF KeyOf(cs[j]) = KeyOf(ps[i]) THEN ps[i] ELSE cs[j]],
                    ps, i + 1, overwrite)
    ELSE PutClauses(cs, ps, i + 1, overwrite)

\* for (i in obj) delete query[i], for the keys of obj from the i-th on
RECURSIVE DeleteClauses(_, _, _)
DeleteClauses(cs, ps, i) ==
    IF i > Len(ps) THEN cs
    ELSE LET Stays(c) == KeyOf(c) # KeyOf(ps[i])
         IN DeleteClauses(SelectSeq(cs, Stays), ps, i + 1)

\* View.prototype.queryAdd(obj, overwrite, refresh): the query starts as {}
\* when it is undefined
queryAdd(w, v, patch, overwrite, doRefresh) ==
    IF ~w.view[v].qs THEN Raise(w, "TypeError")
    ELSE EmitIf(RefreshIf([w EXCEPT !.view[v].query =
                              FromClauses(PutClauses(Clauses(@), Clauses(patch), 1,
                                                     overwrite))],
                          v, doRefresh),
                v, TRUE)

\* return this, at the end of a call that threw no error
ReturnThis(w) == IF Failed(w) THEN w ELSE [w EXCEPT !.out.ret = "view"]

\* View.prototype.queryRemove(obj, refresh): nothing happens while the query
\* is undefined; otherwise the keys of obj are deleted from the query
queryRemove(w, v, patch, doRefresh) ==
    IF ~w.view[v].qs THEN Raise(w, "TypeError")
    ELSE IF w.view[v].query = NoQuery THEN w
    ELSE EmitIf(RefreshIf([w EXCEPT !.view[v].query =
                              FromClauses(DeleteClauses(Clauses(@), Clauses(patch), 1))],
                          v, doRefresh),
                v, TRUE)

\* View.prototype.queryOptions(options, refresh): refresh(), or with refresh
\* false rebuildActiveBucket(options.$orderBy); queryOptions() returns
\* this._querySettings.options
queryOptions(w, v, o, doRefresh) ==
    IF ~w.view[v].qs THEN Raise(w, "TypeError")
    ELSE IF o = NoOptions THEN [w EXCEPT !.out.ret = "options"]
    ELSE IF doRefresh
    THEN ReturnThis(EmitIf(refresh([w EXCEPT !.view[v].options = o], v), v, TRUE))
    ELSE ReturnThis(EmitIf(rebuildActiveBucket([w EXCEPT !.view[v].options = o],
                                               v, o.orderBy),
                           v, TRUE))

\* View.prototype.orderBy(val): queryOptions = this.queryOptions() || {};
\* queryOptions.$orderBy = val; this.queryOptions(queryOptions)
orderBy(w, v, val) ==
    IF ~w.view[v].qs THEN Raise(w, "TypeError")
    ELSE queryOptions(w, v, [w.view[v].options EXCEPT !.defined = TRUE,
                                                      !.orderBy = val],
                      TRUE)

----------------------------------------------------------------------------
(* View: construction, binding, transform, drop *)

FreeViews(w) == {v \in ViewIds : ~w.view[v].exists}
NextFreeView(w) == CHOOSE v \in FreeViews(w) : \A u \in FreeViews(w) : v <= u

\* new View(name, query, options): init calls this.query(query, options, false)
\* before _privateData is assigned
\* w2 is the state after this.query(query, options, false) in init
InitEnd(w, w2, v) ==
    IF Failed(w2) THEN Raise(w, "TypeError")
    ELSE [w2 EXCEPT !.view[v].priv = TRUE,
                    !.coll[Priv(v)] = NewCollection,
                    !.coll[Pub(v)] = NewCollection]

ViewInit(w, v, name, q, o) ==
    InitEnd(w,
            query([w EXCEPT !.view[v] = [NoView EXCEPT !.exists = TRUE, !.name = name,
                                                        !.qs = TRUE]],
                  v, q, o, FALSE),
            v)

\* the db setter: this.privateData().db(db); this.publicData().db(db)
ViewDb(w, v) == [w EXCEPT !.view[v].db = TRUE]

\* a variant that binds to the public collection of a source view
ResolveSourcePublic(w, source) ==
    IF source[1] = "W" THEN Pub(source[2]) ELSE source

\* a source that is a View stands for its private collection
ResolveSource(w, source) ==
    IF source[1] = "W"
    THEN (IF w.view[source[2]].priv THEN Priv(source[2]) ELSE None)
    ELSE source

\* View.prototype.from: the existing from loses its drop listener and the
\* existing reactor io is dropped
ReleaseNone(w, v) == w

ReleaseListener(w, v) ==
    IF w.view[v].from # None
    THEN [w EXCEPT !.coll[w.view[v].from].dropL = RemoveFirst(@, v),
                   !.view[v].from = None]
    ELSE w

ReleaseIo(w, v) ==
    IF w.view[v].ioRef
    THEN [IoDrop(w, SourceIoOf(v)) EXCEPT !.view[v].ioRef = FALSE]
    ELSE w

ReleaseSource(w, v) == ReleaseIo(ReleaseListener(w, v), v)

\* View.prototype.from: the new source gets the drop listener and a new
\* reactor io
Subscribe(w, v, source) ==
    [IoCreate([w EXCEPT !.view[v].from = source,
                        !.coll[source].dropL = Append(@, v)],
              source, SourceIoOf(v)) EXCEPT !.view[v].ioRef = TRUE]

\* View.prototype.from: the private data is filled from the source
FillFrom(w, v, source) ==
    rebuildActiveBucket(
        CollSetData(CollPrimaryKey(w, Priv(v), w.coll[source].pk), Priv(v),
                    CollFind(w, source, w.view[v].query, w.view[v].options)),
        v, IF w.view[v].options.defined THEN w.view[v].options.orderBy ELSE 0)

BindSource(w, v, source) ==
    IF source = None THEN Raise(w, "TypeError")
    ELSE IF ~w.view[v].qs \/ ~w.view[v].priv
         THEN Raise(Subscribe(w, v, source), "TypeError")
    ELSE FillFrom(Subscribe(w, v, source), v, source)

\* View.prototype.from(source), source a collection or <<"W", u>> for view u
from(w, v, src) ==
    ReturnThis(BindSource(ReleaseSource(w, v), v, ResolveSource(w, src)))

\* View.prototype.from() without a source: return this._from
fromGet(w, v) ==
    [w EXCEPT !.out.ret = IF w.view[v].from = None THEN "undefined" ELSE "source"]

\* a variant that leaves the public collection as it was made
SeedNone(w, v) == w

\* this._publicData.setData(this._privateData.find())
SeedPublic(w, v) == CollSetData(w, Pub(v), CollFind(w, Priv(v), NoQuery, NoOptions))

\* View.prototype.transform(obj); "undef" and "none" stand for a missing key
transform(w, v, enabled, dataIn, dataOut) ==
    LET w1 == [w EXCEPT !.view[v].tEnabled = IF enabled = "undef" THEN @
                                              ELSE enabled = "true",
                        !.view[v].tIn = IF dataIn = "none" THEN @ ELSE dataIn,
                        !.view[v].tOut = IF dataOut = "none" THEN @ ELSE dataOut]
        vw == w1.view[v]
    IN IF vw.tEnabled THEN
           IF ~vw.priv
           THEN Raise(IF vw.pubRef THEN w1
                      ELSE [w1 EXCEPT !.coll[Pub(v)] = NewCollection,
                                      !.view[v].pubRef = TRUE],
                      "TypeError")
           ELSE LET w2 == IF ~vw.pubRef
                          THEN [IoCreate(w1, Priv(v), MirrorIoOf(v)) EXCEPT
                                   !.coll[Pub(v)] = [NewCollection EXCEPT
                                       !.tIn = vw.tIn, !.tOut = vw.tOut],
                                   !.view[v].pubRef = TRUE,
                                   !.view[v].tIoRef = TRUE]
                          ELSE w1
                IN SeedPublic(CollPrimaryKey(w2, Pub(v), w2.coll[Priv(v)].pk), v)
       ELSE IF vw.pubRef
            THEN LET w2 == [CollDrop(w1, Pub(v)) EXCEPT !.view[v].pubRef = FALSE]
                 IN IF vw.tIoRef
                    THEN [IoDrop(w2, MirrorIoOf(v)) EXCEPT !.view[v].tIoRef = FALSE]
                    ELSE w2
            ELSE w1

\* the registry entry is deleted under this condition
DropUnregisters(w, v) == w.view[v].db /\ w.view[v].name # ""

\* the references drop() deletes at its end, those the view still holds
HeldRefs(w, v) ==
    {r \in {"_from", "_privateData", "_io", "_querySettings", "_db"} :
        \/ r = "_from" /\ w.view[v].from # None
        \/ r = "_privateData" /\ w.view[v].priv
        \/ r = "_io" /\ w.view[v].ioRef
        \/ r = "_querySettings" /\ w.view[v].qs
        \/ r = "_db" /\ w.view[v].db}

\* callback(false, true)
DropCallback(w, v) ==
    [w EXCEPT !.out.callbacks = @ + 1,
              !.out.seen = [called |-> TRUE, args |-> <<FALSE, TRUE>>,
                            state |-> w.view[v].state,
                            io |-> ~IoLive(w, SourceIoOf(v)),
                            priv |-> w.coll[Priv(v)].dropped,
                            pub |-> w.coll[Pub(v)].dropped,
                            registered |-> \E n \in Names : w.reg[n] = v,
                            events |-> w.out.events,
                            from |-> w.view[v].from,
                            refs |-> HeldRefs(w, v)]]

\* View.prototype.drop(callback), the branch taken when the view is not dropped
DropNow(w, v, callback) ==
    LET vw == w.view[v]
        w1 == IF vw.from # None
              THEN RemoveView([w EXCEPT !.coll[vw.from].dropL = RemoveFirst(@, v)],
                              vw.from, v)
              ELSE w
        w2 == [w1 EXCEPT !.view[v].state = "dropped"]
        w3 == IF vw.ioRef THEN IoDrop(w2, SourceIoOf(v)) ELSE w2
        w4 == IF vw.priv THEN CollDrop(w3, Priv(v)) ELSE w3
        w5 == IF vw.pubRef THEN CollDrop(w4, Pub(v)) ELSE w4
        w6 == IF DropUnregisters(w, v)
              THEN [w5 EXCEPT !.reg[vw.name] = 0] ELSE w5
        w7 == [w6 EXCEPT !.out.events = @ + 1]
        w8 == IF callback THEN DropCallback(w7, v) ELSE w7
    IN [w8 EXCEPT !.view[v].from = None, !.view[v].priv = FALSE,
                  !.view[v].ioRef = FALSE, !.view[v].qs = FALSE,
                  !.view[v].db = FALSE, !.out.ret = "true"]

\* a variant without the isDropped() guard
dropUnguarded(w, v, callback) == DropNow(w, v, callback)

\* View.prototype.drop(callback)
drop(w, v, callback) ==
    IF ~isDropped(w, v) THEN DropNow(w, v, callback)
    ELSE [w EXCEPT !.out.ret = "false"]

----------------------------------------------------------------------------
(* Collection.prototype.view and the registry of the database *)

\* Collection.prototype.view(name, query, options)
\* this._view.push(view); return view
PushView(w, c, v) ==
    IF Failed(w) THEN w
    ELSE [w EXCEPT !.coll[c].view = Append(@, v), !.out.ret = "view", !.out.v = v]

\* .db(this._db).from(this) on the view that new View(...) constructed
DbFrom(w, c, v) == IF Failed(w) THEN w ELSE from(ViewDb(w, v), v, c)

CollectionView(w, c, name, q, o) ==
    IF w.reg[name] = 0
    THEN PushView(DbFrom(ViewInit(w, NextFreeView(w), name, q, o), c, NextFreeView(w)),
                  c, NextFreeView(w))
    ELSE Raise(w, "exists: " \o name)

\* a variant that constructs the view and leaves the registry alone
DbViewUnregistered(w, name) ==
    [ViewDb(ViewInit(w, NextFreeView(w), name, NoQuery, NoOptions),
            NextFreeView(w)) EXCEPT
        !.out.ret = "view", !.out.v = NextFreeView(w), !.out.creates = @ + 1]

\* Db.prototype.view(viewName)
DbView(w, name) ==
    IF w.reg[name] # 0 THEN [w EXCEPT !.out.ret = "view", !.out.v = w.reg[name]]
    ELSE [ViewDb(ViewInit(w, NextFreeView(w), name, NoQuery, NoOptions),
                 NextFreeView(w)) EXCEPT
             !.reg[name] = NextFreeView(w), !.out.ret = "view",
             !.out.v = NextFreeView(w), !.out.creates = @ + 1]

\* Db.prototype.viewExists(viewName)
viewExists(w, name) == w.reg[name] # 0

\* Db.prototype.views(): the names listed
views(w) == {n \in Names : w.reg[n] # 0}

----------------------------------------------------------------------------
(* View reads and pass-through writes *)

\* View.prototype.find
find(w, v) ==
    IF publicData(w, v) = None THEN Raise(w, "TypeError")
    ELSE [w EXCEPT !.out.ret = "array"]

\* View.prototype.findOne
findOne(w, v) ==
    IF publicData(w, v) = None THEN Raise(w, "TypeError")
    ELSE [w EXCEPT !.out.ret = "document"]

\* View.prototype.count
count(w, v) ==
    IF publicData(w, v) = None THEN [w EXCEPT !.out.ret = "0"]
    ELSE [w EXCEPT !.out.ret = "number"]

\* a variant that writes the documents to the private collection of the view
insertPrivate(w, v, docs, single) ==
    IF w.view[v].from = None THEN Raise(w, "TypeError")
    ELSE CollInsert(w, Priv(v), docs, single)

\* View.prototype.insert / update / remove: the call goes to this._from
insert(w, v, docs, single) ==
    IF w.view[v].from = None THEN Raise(w, "TypeError")
    ELSE CollInsert(w, w.view[v].from, docs, single)

update(w, v, q, u) ==
    IF w.view[v].from = None THEN Raise(w, "TypeError")
    ELSE CollUpdate(w, w.view[v].from, q, u).w

\* View.prototype.updateById: Collection.updateById(id, update) is
\* update({<primary key>: id}, update)
updateById(w, v, id, u) ==
    IF w.view[v].from = None THEN Raise(w, "TypeError")
    ELSE CollUpdate(w, w.view[v].from, QField(w.coll[w.view[v].from].pk, id), u).w

remove(w, v, q) ==
    IF w.view[v].from = None THEN Raise(w, "TypeError")
    ELSE CollRemove(w, w.view[v].from, q)

----------------------------------------------------------------------------
(* BinaryTree (BTree.js): a tree of documents under an index *)

\* an index field value a document or a query does not have
Undefined == -1
TreeVals == 0..MaxKey
TreeFields == {"a", "b"}

\* a document with the fields a and b; id tells documents apart
TreeDoc(a, b, id) == [a |-> a, b |-> b, id |-> id]

\* a query on the fields a and b, Undefined where it has no key
TreeQuery(a, b) == [a |-> a, b |-> b]
TreeQueries == {TreeQuery(a, b) : a, b \in TreeVals \cup {Undefined}}

\* the index objects {key: 1 | -1, ...} of one and two keys
IndexKey(key, val) == [key |-> key, val |-> val]
OtherField(k) == IF k = "a" THEN "b" ELSE "a"
Indexes ==
    {<<IndexKey(k, d)>> : k \in TreeFields, d \in {1, -1}} \cup
    {<<IndexKey(k, d1), IndexKey(OtherField(k), d2)>> :
        k \in TreeFields, d1 \in {1, -1}, d2 \in {1, -1}}

\* a missing node and a missing _data
NoNode == [nil |-> TRUE]
NoData == [a |-> Undefined, b |-> Undefined, id |-> 0]

\* var BinaryTree = function (val, index) with val undefined
NewTree(index) ==
    [nil |-> FALSE, index |-> index, hasData |-> FALSE, data |-> NoData,
     store |-> <<>>, left |-> NoNode, middle |-> NoNode, right |-> NoNode]

\* a > b and a < b of JavaScript on numbers and undefined
Gt(a, b) == a # Undefined /\ b # Undefined /\ a > b
Lt(a, b) == a # Undefined /\ b # Undefined /\ a < b

\* BinaryTree.prototype.sortAsc
sortAsc(a, b) == IF Gt(a, b) THEN 1 ELSE IF Lt(a, b) THEN -1 ELSE 0

\* BinaryTree.prototype.sortDesc
sortDesc(a, b) == IF Gt(a, b) THEN -1 ELSE IF Lt(a, b) THEN 1 ELSE 0

\* BinaryTree.prototype._compareFunc, on the node's _indexField
compareFunc(t, a, b) ==
    IF t.index = <<>> THEN 0
    ELSE IF t.index[1].val = 1 THEN sortAsc(a[t.index[1].key], b[t.index[1].key])
    ELSE IF t.index[1].val = -1 THEN sortDesc(a[t.index[1].key], b[t.index[1].key])
    ELSE 0

RECURSIVE BinaryTree(_, _)
RECURSIVE treeInsert(_, _)
RECURSIVE insertMiddle(_, _)

\* BinaryTree.prototype.insertLeft
insertLeft(t, val) ==
    IF ~t.left.nil THEN [t EXCEPT !.left = treeInsert(t.left, val)]
    ELSE [t EXCEPT !.left = BinaryTree(val, t.index)]

\* BinaryTree.prototype.insertRight
insertRight(t, val) ==
    IF ~t.right.nil THEN [t EXCEPT !.right = treeInsert(t.right, val)]
    ELSE [t EXCEPT !.right = BinaryTree(val, t.index)]

\* a variant whose store keeps the last document only
insertMiddleLast(t, val) == [t EXCEPT !.store = <<val>>]

\* BinaryTree.prototype.insertMiddle
insertMiddle(t, val) ==
    IF ~t.middle.nil
    THEN [t EXCEPT !.store = Append(@, val), !.middle = treeInsert(t.middle, val)]
    ELSE IF Len(t.index) > 1
    THEN [t EXCEPT !.store = Append(@, val),
                   !.middle = BinaryTree(val, Tail(t.index))]
    ELSE [t EXCEPT !.store = Append(@, val)]

\* var BinaryTree = function (val, index) with a val
BinaryTree(val, index) ==
    insertMiddle([NewTree(index) EXCEPT !.hasData = TRUE, !.data = val], val)

\* the branch of insert a comparison result selects
InsertAt(t, val, comp) ==
    IF comp = -1 THEN insertLeft(t, val)
    ELSE IF comp = 0 THEN insertMiddle(t, val)
    ELSE IF comp = 1 THEN insertRight(t, val)
    ELSE t

\* BinaryTree.prototype.insert(val), val one document: the tree afterwards
treeInsert(t, val) ==
    IF ~t.hasData
    THEN insertMiddle([t EXCEPT !.hasData = TRUE, !.data = val], val)
    ELSE InsertAt(t, val, compareFunc(t, val, t.data))

\* BinaryTree.prototype.insert(val), val one document: the value returned
insertReturns(t, val) == IF ~t.hasData THEN "true" ELSE "undefined"

\* BinaryTree.prototype.insert(val), val an array: the loop over its items
RECURSIVE insertArray(_, _, _)
insertArray(r, val, i) ==
    IF i > Len(val) THEN r
    ELSE insertArray(
             [tree |-> treeInsert(r.tree, val[i]),
              inserted |-> IF insertReturns(r.tree, val[i]) = "true"
                           THEN Append(r.inserted, val[i]) ELSE r.inserted,
              failed |-> IF insertReturns(r.tree, val[i]) = "true"
                         THEN r.failed ELSE Append(r.failed, val[i])],
             val, i + 1)

\* BinaryTree.prototype.inOrder
RECURSIVE inOrder(_)
inOrder(t) ==
    (IF ~t.left.nil THEN inOrder(t.left) ELSE <<>>)
    \o (IF ~t.middle.nil THEN inOrder(t.middle) ELSE t.store)
    \o (IF ~t.right.nil THEN inOrder(t.right) ELSE <<>>)

\* if (query[key]): the value is neither undefined nor 0
Truthy(x) == x # Undefined /\ x # 0

\* what a call yields: the array it returns, or the error it throws
Found(arr) == [arr |-> arr, err |-> ""]
Thrown == [arr |-> <<>>, err |-> "TypeError"]

\* resultArr.concat(<lookup of a child>): the first error thrown ends the call
Concat(r1, r2) ==
    IF r1.err # "" THEN r1
    ELSE IF r2.err # "" THEN r2
    ELSE Found(r1.arr \o r2.arr)

\* BinaryTree.prototype.decouple(data), data defined: this.jStringify(data),
\* and the tree has no method jStringify
decouple(data) == Thrown

RECURSIVE lookup(_, _)

\* BinaryTree.prototype.lookup(query) on a node that holds data; when the
\* query compares equal to the data, query = this.decouple(query) throws and
\* the statements after it are not reached
lookup(t, qry) ==
    IF Truthy(qry[t.index[1].key])
    THEN IF compareFunc(t, qry, t.data) = -1
         THEN IF ~t.left.nil THEN lookup(t.left, qry) ELSE Found(<<>>)
         ELSE IF compareFunc(t, qry, t.data) = 0
         THEN decouple(qry)
         ELSE IF ~t.right.nil THEN lookup(t.right, qry) ELSE Found(<<>>)
    ELSE Concat(Concat(IF ~t.left.nil THEN lookup(t.left, qry) ELSE Found(<<>>),
                       IF ~t.middle.nil THEN lookup(t.middle, qry) ELSE Found(t.store)),
                IF ~t.right.nil THEN lookup(t.right, qry) ELSE Found(<<>>))

\* lookup(query) reads this._data of a tree that holds none
LookupThrows(t, qry) == ~t.hasData /\ Truthy(qry[t.index[1].key])

\* the tree with its index, the documents inserted so far, the last call
\* of its last call: the array or the query passed, the value or the arrays
\* returned
NoTree == [root |-> NoNode, docs |-> <<>>, op |-> "", val |-> <<>>,
           query |-> TreeQuery(Undefined, Undefined), ret |-> "",
           arr |-> <<>>, failed |-> <<>>]

\* the tree state before a call
TreeCall(op) == [NoTree EXCEPT !.root = btree.root, !.docs = btree.docs, !.op = op]

\* the tree state after insert(val), val an array
ArrayResult(val, r) ==
    [TreeCall("insert(array)") EXCEPT !.root = r.tree, !.docs = btree.docs \o val,
                                      !.val = val, !.arr = r.inserted,
                                      !.failed = r.failed]

BatchResult(val) ==
    ArrayResult(val, insertArray([tree |-> btree.root, inserted |-> <<>>,
                                  failed |-> <<>>], val, 1))

----------------------------------------------------------------------------
(* View.prototype.queryAdd: the keys of the query object *)

QueryKeys == {"n", "k"}
QueryVals == 1..MaxVal

\* an object over QueryKeys; a key it does not own reads as undefined
QueryObjects == [QueryKeys -> QueryVals \cup {Undefined}]
NoKeys == [i \in QueryKeys |-> Undefined]

\* the third state of the overwrite argument beside true and false
Omitted == "omitted"
Overwrites == {Omitted, "true", "false"}

\* a variant that assigns every key of obj
QueryMergeAll(qry, obj, overwrite) ==
    [i \in QueryKeys |-> IF obj[i] # Undefined THEN obj[i] ELSE qry[i]]

\* for (i in obj) if (query[i] === undefined || overwrite !== false)
\*     query[i] = obj[i]
QueryMerge(qry, obj, overwrite) ==
    [i \in QueryKeys |->
        IF obj[i] # Undefined /\ (qry[i] = Undefined \/ overwrite # "false")
        THEN obj[i] ELSE qry[i]]

\* _querySettings.query (hasQuery says whether it is an object or undefined),
\* the query before the last queryAdd or queryRemove, its arguments;
\* options.$page (hasPage says whether it is set) and cursor().pages
NoSettings == [query |-> NoKeys, hasQuery |-> FALSE, before |-> NoKeys, op |-> "",
               obj |-> NoKeys, overwrite |-> Omitted, hasPage |-> FALSE, page |-> 0,
               pages |-> Undefined]

\* View.prototype.queryAdd(obj, overwrite, refresh) on a view without a
\* source: refresh() finds no _from and an undefined query starts as {}
QueryAddKeys(st, obj, overwrite) ==
    [st EXCEPT !.query = QueryMerge(st.query, obj, overwrite), !.hasQuery = TRUE,
               !.before = st.query, !.op = "queryAdd", !.obj = obj,
               !.overwrite = overwrite]

\* for (i in obj) delete query[i]
QueryDelete(qry, obj) ==
    [i \in QueryKeys |-> IF obj[i] # Undefined THEN Undefined ELSE qry[i]]

\* View.prototype.queryRemove(obj, refresh) on a view without a source: the
\* keys are deleted only if (query)
QueryRemoveKeys(st, obj) ==
    [st EXCEPT !.query = IF st.hasQuery THEN QueryDelete(st.query, obj) ELSE @,
               !.before = st.query, !.op = "queryRemove", !.obj = obj,
               !.overwrite = Omitted]

----------------------------------------------------------------------------
(* View.prototype.page, pageFirst, pageLast, pageScan *)

\* page(val): the options change only when val differs from $page
page(st, val) ==
    IF ~st.hasPage \/ val # st.page
    THEN [st EXCEPT !.hasPage = TRUE, !.page = val]
    ELSE st

pageFirst(st) == page(st, 0)

\* lastPage = pages !== undefined ? pages : 0; page(lastPage - 1)
pageLast(st) == page(st, (IF st.pages # Undefined THEN st.pages ELSE 0) - 1)

\* if (currentPage < 0) currentPage = 0
ClampLow(currentPage) == IF currentPage < 0 THEN 0 ELSE currentPage

\* if (currentPage >= pages) currentPage = pages - 1; the comparison with
\* undefined is false
ClampHigh(currentPage, pages) ==
    IF pages # Undefined /\ currentPage >= pages THEN pages - 1 ELSE currentPage

pageScan(st, val) ==
    page(st, ClampHigh(ClampLow((IF st.hasPage THEN st.page ELSE 0) + val), st.pages))

\* the call is recorded
Paged(st, op) == [st EXCEPT !.op = op]

----------------------------------------------------------------------------
(* ReactorNode.chainSend (section 4.C): every listener, in registration order *)

Deliver(w, l, p) ==
    IF Failed(w) THEN w
    ELSE IF l[1] = "V" THEN QueryGate(w, l[2], p)
    ELSE IF l[1] = "X" THEN Interceptor(w, l[2], p)
    ELSE MirrorIo(w, l[2], p)

RECURSIVE DeliverAll(_, _, _, _)
DeliverAll(w, ls, p, i) ==
    IF i > Len(ls) THEN w ELSE DeliverAll(Deliver(w, ls[i], p), ls, p, i + 1)

ChainSend(w, c, p) ==
    DeliverAll([w EXCEPT !.out.sent = Append(@, <<c, p>>)], w.coll[c].chain, p, 1)

----------------------------------------------------------------------------
(* Actions *)

Call(op, v) == [NoOut EXCEPT !.op = op, !.v = v]
Begin(op, v) == [World EXCEPT !.out = Call(op, v)]

\* the model stops where a bucket would outgrow its bound
Bounded(w) == \A v \in ViewIds : Len(w.view[v].bucket.items) <= MaxBucket

\* the variables hold the state w
Starts(w) ==
    /\ coll = w.coll
    /\ view = w.view
    /\ reg = w.reg
    /\ out = w.out
    /\ btree = NoTree
    /\ settings = NoSettings

Becomes(w) ==
    /\ Bounded(w)
    /\ coll' = w.coll
    /\ view' = w.view
    /\ reg' = w.reg
    /\ out' = w.out
    /\ UNCHANGED <<btree, settings>>

Live(c) == ~coll[c].dropped

\* collection.insert(doc) and collection.insert([doc, ...]) on a source
SourceInsert(c) ==
    /\ Live(c)
    /\ \E d \in Docs : Becomes(CollInsert(Begin("", 0), c, <<d>>, TRUE))

SourceInsertBatch(c) ==
    /\ Live(c)
    /\ \E d1, d2 \in Docs :
          /\ d1.k # d2.k
          /\ Becomes(CollInsert(Begin("", 0), c, <<d1, d2>>, FALSE))

UpdateQueries(c) == {QAll, QGe(1)} \cup {QField(coll[c].pk, k) : k \in Ids}

\* collection.update(query, {n: x}) on a source
SourceUpdate(c) ==
    /\ Live(c)
    /\ \E q \in UpdateQueries(c), x \in Vals :
          Becomes(CollUpdate(Begin("", 0), c, q, Upd(x)).w)

\* collection.remove(query) on a source
SourceRemove(c) ==
    /\ Live(c)
    /\ \E q \in UpdateQueries(c) : Becomes(CollRemove(Begin("", 0), c, q))

\* collection.setData([doc, ...]) on a source
SourceSetData(c) ==
    /\ Live(c)
    /\ \E d \in Docs : Becomes(CollSetData(Begin("", 0), c, <<d>>))

\* collection.primaryKey(name) on a source
SourcePrimaryKey(c) ==
    /\ Live(c)
    /\ \E pk \in PkNames : Becomes(CollPrimaryKey(Begin("", 0), c, pk))

----------------------------------------------------------------------------
(* One view bound to a source: db.view("a").query(q, o, false).from(S) *)

S1 == <<"S", 1>>
S2 == <<"S", 2>>

World0(pk) ==
    [coll |-> [c \in CollIds |-> IF c \in SrcColls
                                 THEN [NewCollection EXCEPT !.pk = pk]
                                 ELSE NewCollection],
     view |-> [v \in ViewIds |-> NoView],
     reg |-> [n \in Names |-> 0],
     out |-> NoOut]

BoundView(pk, q, o) ==
    [from(query(DbView(World0(pk), "a"), 1, q, o, FALSE), 1, S1) EXCEPT !.out = NoOut]

InitView ==
    \E pk \in PkNames, q \in {NoQuery, QGe(1)}, o \in {NoOptions, Options(1)} :
        Starts(BoundView(pk, q, o))

NextView ==
    \/ SourceInsert(S1)
    \/ SourceInsertBatch(S1)
    \/ SourceUpdate(S1)
    \/ SourceRemove(S1)

SpecView == InitView /\ [][NextView]_vars

\* what the view should hold: source.find(Q, O)
SourceFind(v) == CollFind(World, view[v].from, view[v].query, view[v].options)

Converged(v) == BagOf(coll[Priv(v)].data) = BagOf(SourceFind(v))

\* C1: after every insert, update and remove on the source has propagated,
\* the private collection of the bound view holds, as a multiset, exactly the
\* documents source.find(Q, O) returns.
C1_Convergence == Converged(1)

----------------------------------------------------------------------------
(* An ordered view fed insert and update packets *)

InitOrdered ==
    \E pk \in PkNames, q \in {NoQuery, QAll} :
        Starts(BoundView(pk, q, Options(1)))

NextOrdered ==
    \/ SourceInsert(S1)
    \/ SourceInsertBatch(S1)
    \/ SourceUpdate(S1)

SpecOrdered == InitOrdered /\ [][NextOrdered]_vars

\* C2: under $orderBy ascending, after any insert and update packets (single
\* documents or batches) every adjacent pair of the private data is in order.
C2_Ordering ==
    Ordered(World, 1) => Sorted(coll[Priv(1)].data, view[1].options.orderBy)

----------------------------------------------------------------------------
(* A view on a view: V1 = db.view("a") on S, V2 = db.view("").from(V1) *)

ViewOnView(pk, q1, o1, q2) ==
    [from(query(DbView(BoundView(pk, q1, o1), ""), 2, q2, NoOptions, FALSE),
          2, <<"W", 1>>) EXCEPT !.out = NoOut]

InitChain ==
    \E pk \in PkNames, q1 \in {NoQuery, QGe(1)}, o1 \in {NoOptions, Options(1)},
       q2 \in {NoQuery, QLe(1)} :
        Starts(ViewOnView(pk, q1, o1, q2))

NextChain ==
    \/ SourceInsert(S1)
    \/ SourceInsertBatch(S1)

SpecChain == InitChain /\ [][NextChain]_vars

BothQueries(s) ==
    Filter(Filter(s, view[1].query, coll[S1].pk), view[2].query, coll[S1].pk)

\* C3: from(V1) attaches V2 to the private collection of V1, and after any
\* inserts into S the second view holds exactly the documents of S that match
\* both Q1 and Q2.
C3_ViewOnView ==
    /\ view[2].from = Priv(1)
    /\ Contains(coll[Priv(1)].chain, SourceIoOf(2))
    /\ BagOf(coll[Priv(2)].data) = BagOf(BothQueries(coll[S1].data))

\* both queries are set, V2 holds a document, and S holds a document that one
\* of the queries rejects
C3_Witness ==
    /\ view[1].query = QGe(1)
    /\ view[2].query = QLe(1)
    /\ Len(coll[Priv(2)].data) > 0
    /\ \E i \in 1..Len(coll[S1].data) : coll[S1].data[i].n # 1

----------------------------------------------------------------------------
(* A view with transforms enabled *)

Transformed(pk, q, f, g) ==
    [transform(BoundView(pk, q, NoOptions), 1, "true", f, g) EXCEPT !.out = NoOut]

InitTransform ==
    \E q \in {NoQuery, QGe(1)}, f \in {"id", "inc"}, g \in {"id", "inc"} :
        Starts(Transformed("_id", q, f, g))

NextTransform ==
    \/ SourceInsert(S1)
    \/ SourceInsertBatch(S1)
    \/ SourceUpdate(S1)
    \/ SourceRemove(S1)
    \/ SourceSetData(S1)

SpecTransform == InitTransform /\ [][NextTransform]_vars

\* the documents reads of the public collection return
PublicFind(v) == CollFind(World, Pub(v), NoQuery, NoOptions)

Projected(v) ==
    LET private == coll[Priv(v)].data
        public == PublicFind(v)
    IN /\ \A i \in 1..Len(private) :
              \E j \in 1..Len(public) :
                  public[j] = Transform(view[v].tOut, Transform(view[v].tIn, private[i]))
       /\ \A j \in 1..Len(public) : HasKey(private, public[j].k)

\* C4: with transforms enabled with dataIn = f and dataOut = g, after any
\* setData, insert, update and remove packets every private document d has
\* the public document g(f(d)) under its primary key, and every public
\* document has a private counterpart.
C4_Projection == Projected(1)

----------------------------------------------------------------------------
(* The life cycle: views are created, bound, rebound, used and dropped *)

Init ==
    /\ coll = World0("_id").coll
    /\ view = World0("_id").view
    /\ reg = World0("_id").reg
    /\ out = NoOut
    /\ btree = NoTree
    /\ settings = NoSettings

CanCreate == FreeViews(World) # {}

\* db.view(name)
DoDbView ==
    \E n \in Names :
        /\ reg[n] # 0 \/ CanCreate
        /\ Becomes(DbView(Begin("Db.view", 0), n))

\* collection.view(name) and collection.view(name, query)
DoCollectionView ==
    \E c \in SrcColls, n \in Names, q \in {NoQuery, QGe(1)} :
        /\ Live(c)
        /\ CanCreate
        /\ Becomes(CollectionView(Begin("Collection.view", 0), c, n, q, NoOptions))

\* view.from(collection) and view.from(otherView); a view is bound to views
\* constructed before it, which keeps the graph free of cycles
DoFrom ==
    \E v \in ViewIds :
        /\ view[v].exists
        /\ ~isDropped(World, v)
        /\ \E src \in {c \in SrcColls : Live(c)}
                      \cup {<<"W", u>> : u \in {x \in ViewIds : x < v /\ view[x].exists}} :
              Becomes(from(Begin("from", v), v, src))

\* view.drop() and view.drop(callback)
DoDrop ==
    \E v \in ViewIds, callback \in BOOLEAN :
        /\ view[v].exists
        /\ Becomes(drop(Begin("drop", v), v, callback))

Next ==
    \/ DoDbView
    \/ DoCollectionView
    \/ DoFrom
    \/ DoDrop

Spec == Init /\ [][Next]_vars

----------------------------------------------------------------------------
(* The public operations of a view, called while it lives and after drop() *)

InitUse ==
    \E q \in {NoQuery, QGe(1)} :
        Starts(BoundView("_id", q, NoOptions))

UseOps == {"find", "findOne", "count", "insert", "update", "remove", "refresh",
           "query", "queryAdd", "queryRemove", "transform", "from"}

Created == {v \in ViewIds : view[v].exists}

UseFind == \E v \in Created : Becomes(find(Begin("find", v), v))

UseFindOne == \E v \in Created : Becomes(findOne(Begin("findOne", v), v))

UseCount == \E v \in Created : Becomes(count(Begin("count", v), v))

UseInsert ==
    \E v \in Created, d \in Docs : Becomes(insert(Begin("insert", v), v, <<d>>, TRUE))

UseUpdate ==
    \E v \in Created, x \in Vals : Becomes(update(Begin("update", v), v, QAll, Upd(x)))

UseUpdateById ==
    \E v \in Created, k \in Ids, x \in Vals :
        Becomes(updateById(Begin("updateById", v), v, k, Upd(x)))

UseRemove ==
    \E v \in Created, q \in {QAll, QGe(1)} : Becomes(remove(Begin("remove", v), v, q))

UseRefresh == \E v \in Created : Becomes(refresh(Begin("refresh", v), v))

UseQuery ==
    \E v \in Created, q \in {QGe(1), QLe(1)} :
        Becomes(query(Begin("query", v), v, q, NoOptions, TRUE))

UseQueryAdd ==
    \E v \in Created, patch \in {QGe(2), QField("_id", 1)}, overwrite \in BOOLEAN :
        Becomes(queryAdd(Begin("queryAdd", v), v, patch, overwrite, TRUE))

UseFrom == \E v \in Created : Becomes(from(Begin("from", v), v, S1))

UseQueryRemove ==
    \E v \in Created, patch \in {QGe(1), QField("_id", 2)} :
        Becomes(queryRemove(Begin("queryRemove", v), v, patch, TRUE))

\* view.transform({enabled: true, dataIn: f}) and view.transform(false) on a
\* dropped view
UseTransform ==
    \E v \in {u \in Created : isDropped(World, u)} :
        \/ Becomes(transform(Begin("transform", v), v, "true", "inc", "none"))
        \/ Becomes(transform(Begin("transform", v), v, "false", "none", "none"))

UseDrop == \E v \in Created : Becomes(drop(Begin("drop", v), v, FALSE))

NextUse ==
    \/ UseFind
    \/ UseFindOne
    \/ UseCount
    \/ UseInsert
    \/ UseUpdate
    \/ UseRemove
    \/ UseRefresh
    \/ UseQuery
    \/ UseQueryAdd
    \/ UseQueryRemove
    \/ UseTransform
    \/ UseFrom
    \/ UseDrop

SpecUse == InitUse /\ [][NextUse]_vars

\* C6: an operation called on a dropped view raises no error and leaves the
\* view subscribed to no source: no reactor io of the view is in a chain and
\* the view listens to the drop event of no collection.
C6_UseAfterDrop ==
    (out.op \in UseOps /\ isDropped(World, out.v)) =>
        /\ out.err = ""
        /\ ~IoLive(World, SourceIoOf(out.v))
        /\ \A c \in CollIds : ~Contains(coll[c].dropL, out.v)

----------------------------------------------------------------------------
(* The claims about the life cycle *)

\* some view that exists and is not dropped carries the name n
LiveNamed(n) ==
    \E u \in ViewIds : view[u].exists /\ ~isDropped(World, u) /\ view[u].name = n

\* C5: the first drop() sets the dropped state and returns true; a later
\* drop() returns false, changes no state, emits no event and invokes no
\* callback; a dropped view stays dropped.
C5_DropIdempotent ==
    [][\A v \in ViewIds :
          /\ isDropped(World, v) => view'[v].state = "dropped"
          /\ (out'.op = "drop" /\ out'.v = v) =>
                IF isDropped(World, v)
                THEN /\ out'.ret = "false"
                     /\ out'.events = 0
                     /\ out'.callbacks = 0
                     /\ coll' = coll /\ view' = view /\ reg' = reg
                ELSE /\ out'.ret = "true"
                     /\ view'[v].state = "dropped"]_vars

\* a drop() on a view that was dropped before has returned
C5_Witness ==
    /\ out.op = "drop"
    /\ out.ret = "false"
    /\ isDropped(World, out.v)

\* C7: a dropped view is in the _view list of no collection, however it was
\* created and bound.
C7_NoBackReference ==
    \A v \in ViewIds :
        isDropped(World, v) => \A c \in CollIds : ~Contains(coll[c].view, v)

\* C8: a view that is not dropped and is bound to a source collection is in
\* the _view list of that collection exactly once.
C8_BackReferenceOnce ==
    \A v \in ViewIds :
        (view[v].exists /\ ~isDropped(World, v) /\ view[v].from \in SrcColls)
            => Occurrences(coll[view[v].from].view, v) = 1

\* C9: when drop() of a view named n that belongs to the database has
\* returned true, viewExists(n) is false and views() lists no n.
C9_Unregistered ==
    (out.op = "drop" /\ out.ret = "true") =>
        /\ ~viewExists(World, view[out.v].name)
        /\ view[out.v].name \notin views(World)

\* C10: collection.view(n, q, o) never returns a view while a view named n
\* exists that is not dropped, and when it throws for the name it changes
\* neither a view, a collection nor the registry.
C10_NameConflict ==
    [][/\ (out'.op = "Collection.view" /\ out'.ret = "view")
            => ~LiveNamed(view'[out'.v].name)
       /\ (out'.op = "Collection.view" /\ \E n \in Names : out'.err = "exists: " \o n)
            => (coll' = coll /\ view' = view /\ reg' = reg)]_vars

\* C11: when collection.view(n, q, o) has returned the view V, viewExists(n)
\* is true and the registry maps n to V, so that Db.view(n) returns V.
C11_Registered ==
    (out.op = "Collection.view" /\ out.ret = "view") =>
        /\ viewExists(World, view[out.v].name)
        /\ reg[view[out.v].name] = out.v

----------------------------------------------------------------------------
(* Writes made through a bound view *)

NextWrite ==
    \/ UseInsert
    \/ UseUpdate
    \/ UseUpdateById
    \/ UseRemove

SpecWrite == InitUse /\ [][NextWrite]_vars

\* a view that exists, is not dropped and has a source
Bound(v) == view[v].exists /\ ~isDropped(World, v) /\ view[v].from # None

\* the last document of the source of v matches no query of v and is not in
\* the private collection of v
LastRejected(v) ==
    LET data == coll[view[v].from].data
    IN /\ data # <<>>
       /\ ~Match(data[Len(data)], view[v].query, coll[view[v].from].pk)
       /\ ~HasKey(coll[Priv(v)].data, data[Len(data)].k)

\* C12: insert, update, updateById and remove on a bound view leave every
\* collection as the same call on the source leaves it, and an insert of a
\* document that does not match the query of the view leaves the private
\* collection unchanged.
C12_PassThrough ==
    [][\A v \in ViewIds : (Bound(v) /\ out'.v = v) =>
          /\ out'.op = "insert" =>
                /\ \E d \in Docs :
                      coll' = CollInsert(Begin("insert", v), view[v].from, <<d>>, TRUE).coll
                /\ \A d \in Docs :
                      (/\ coll'[view[v].from].data = Append(coll[view[v].from].data, d)
                       /\ ~Match(d, view[v].query, coll[view[v].from].pk))
                      => coll'[Priv(v)] = coll[Priv(v)]
          /\ out'.op = "update" =>
                \E x \in Vals :
                    coll' = CollUpdate(Begin("update", v), view[v].from, QAll, Upd(x)).w.coll
          /\ out'.op = "updateById" =>
                \E k \in Ids, x \in Vals :
                    coll' = CollUpdate(Begin("updateById", v), view[v].from,
                                       QField(coll[view[v].from].pk, k), Upd(x)).w.coll
          /\ out'.op = "remove" =>
                \E q \in {QAll, QGe(1)} :
                    coll' = CollRemove(Begin("remove", v), view[v].from, q).coll]_vars

\* an insert through a bound view has put a document in the source that the
\* query of the view rejects
C12_Witness ==
    /\ out.op = "insert"
    /\ out.err = ""
    /\ Bound(out.v)
    /\ view[out.v].query # NoQuery
    /\ LastRejected(out.v)

(* A ReactorIO that consumes every packet *)

\* view 1 is the sink of a ReactorIO from S1 whose transform function
\* returns true for every packet and emits nothing
Intercepted(pk, q) ==
    [IoCreate(query(DbView(World0(pk), "a"), 1, q, NoOptions, FALSE),
              S1, InterceptIoOf(1)) EXCEPT !.out = NoOut]

InitIntercept ==
    \E pk \in PkNames, q \in {NoQuery, QGe(1)} : Starts(Intercepted(pk, q))

NextIntercept ==
    \/ SourceInsert(S1)
    \/ SourceInsertBatch(S1)
    \/ SourceUpdate(S1)
    \/ SourceRemove(S1)
    \/ SourceSetData(S1)
    \/ SourcePrimaryKey(S1)

SpecIntercept == InitIntercept /\ [][NextIntercept]_vars

\* C13: while the ReactorIO's transform function returns true for every packet
\* and emits nothing, the sink's chain handler receives no packet, whatever
\* the source sends: the sink's data stays empty and nothing is thrown.
C13_Interception ==
    /\ out.received = 0
    /\ coll[Priv(1)].data = <<>>
    /\ out.err = ""

\* the source has sent packets: it holds two documents, one of them updated
C13_Witness ==
    /\ IoLive(World, InterceptIoOf(1))
    /\ Len(coll[S1].data) = 2
    /\ \E i \in 1..2 : coll[S1].data[i].n = MaxVal

(* Sources that are dropped or replaced under a bound view *)

\* collection.drop() on a source
DropSource ==
    \E c \in {S1, S2} :
        /\ Live(c)
        /\ Becomes(CollDrop(Begin("Collection.drop", 0), c))

\* view.from(source) on view 1, whatever it is bound to
Rebind ==
    \E c \in {S1, S2} :
        /\ Live(c)
        /\ ~isDropped(World, 1)
        /\ Becomes(from(Begin("from", 1), 1, c))

\* collection.insert(doc) on the empty source S1
FirstInsert == coll[S1].data = <<>> /\ SourceInsert(S1)

\* view.from() on view 1
FromGet == Becomes(fromGet(Begin("from()", 1), 1))

\* view.drop() on view 1
ViewDrop == Becomes(drop(Begin("drop", 1), 1, FALSE))

InitSource ==
    \E q \in {NoQuery, QGe(1)} : Starts(BoundView("_id", q, NoOptions))

NextSource ==
    \/ FirstInsert
    \/ SourceSetData(S1)
    \/ SourceSetData(S2)
    \/ DropSource
    \/ Rebind
    \/ FromGet
    \/ ViewDrop

SpecSource == InitSource /\ [][NextSource]_vars

\* view 1 is not dropped and its source has been dropped
Detached == view[1].state # "dropped" /\ view[1].from = None

\* C14: the drop of the source of bound view 1 clears the view's source, leaves
\* the view undropped and its private data as it was; afterwards from()
\* returns no source and drop() returns true without an error.
C14_SourceDrop ==
    [][/\ (/\ out'.op = "Collection.drop"
           /\ Bound(1)
           /\ coll'[view[1].from].dropped)
          => /\ view'[1].from = None
             /\ view'[1].state # "dropped"
             /\ coll'[Priv(1)].data = coll[Priv(1)].data
       /\ (out'.op = "from()" /\ Detached) => out'.ret = "undefined"
       /\ (out'.op = "drop" /\ Detached)
          => /\ out'.ret = "true"
             /\ out'.err = ""
             /\ view'[1].state = "dropped"]_vars

\* view 1 has been dropped after its source, which held a document, was
C14_Witness ==
    /\ out.op = "drop"
    /\ out.ret = "true"
    /\ coll[S1].dropped
    /\ coll[S2].dropped
    /\ coll[S1].data # <<>>

\* the source ReactorIOs of view v that are in a chain of cs
SourceIos(cs, v) ==
    {p \in UNION {{<<c, i>> : i \in DOMAIN cs[c].chain} : c \in CollIds} :
        cs[p[1]].chain[p[2]] = SourceIoOf(v)}

\* C15: from(S2) on the view bound to S1 takes the view's drop listener and
\* its ReactorIO off S1, the view never has more than one source ReactorIO,
\* and afterwards a packet of S1 does not reach the view and the drop of S1
\* leaves the view bound to S2.
C15_Rebinding ==
    [][/\ Cardinality(SourceIos(coll', 1)) <= 1
       /\ (out'.op = "from" /\ view[1].from = S1 /\ view'[1].from = S2)
          => /\ ~Contains(coll'[S1].dropL, 1)
             /\ ~Contains(coll'[S1].chain, SourceIoOf(1))
             /\ Contains(coll'[S2].chain, SourceIoOf(1))
       /\ (out'.op = "" /\ view[1].from = S2 /\ coll'[S1].data # coll[S1].data)
          => /\ out'.received = 0
             /\ coll'[Priv(1)] = coll[Priv(1)]
       /\ (/\ out'.op = "Collection.drop"
           /\ view[1].from = S2
           /\ ~coll[S1].dropped
           /\ coll'[S1].dropped)
          => view'[1].from = S2]_vars

\* S1, written to after the view was bound to S2, has been dropped and the
\* view is still bound to S2
C15_Witness ==
    /\ out.op = "Collection.drop"
    /\ coll[S1].dropped
    /\ coll[S1].data # <<>>
    /\ coll[Priv(1)].data = <<>>
    /\ view[1].from = S2
    /\ Contains(coll[S2].chain, SourceIoOf(1))

(* The ReactorIOs of a view that is dropped *)

\* view.transform({enabled: true, dataIn: f, dataOut: g}) on view 1
EnableTransform ==
    /\ ~isDropped(World, 1)
    /\ \E f \in {"id", "inc"}, g \in {"id", "inc"} :
           Becomes(transform(Begin("transform", 1), 1, "true", f, g))

\* view.transform(false) on view 1
DisableTransform ==
    /\ ~isDropped(World, 1)
    /\ Becomes(transform(Begin("transform", 1), 1, "false", "none", "none"))

NextRelease ==
    \/ FirstInsert
    \/ SourceSetData(S1)
    \/ EnableTransform
    \/ DisableTransform
    \/ ViewDrop

SpecRelease == InitSource /\ [][NextRelease]_vars

\* C16: when drop() has returned true, neither the source ReactorIO made by
\* from() nor the mirror ReactorIO made by transform() is left in a chain.
C16_Released ==
    (out.op = "drop" /\ out.ret = "true") =>
        /\ ~IoLive(World, SourceIoOf(1))
        /\ ~IoLive(World, MirrorIoOf(1))

\* C17: the state of a view is 'initialised' from its construction until its
\* first from(source), 'bound' from then on, and 'dropped' after drop().
C17_StateMachine ==
    \A v \in ViewIds :
        view[v].exists =>
            /\ view[v].state \in {"initialised", "bound", "dropped"}
            /\ view[v].state = "initialised" => view[v].from = None
            /\ (~isDropped(World, v) /\ view[v].from # None) => view[v].state = "bound"

----------------------------------------------------------------------------
(* BinaryTree: documents are inserted one at a time *)

InitTree ==
    /\ coll = World0("_id").coll
    /\ view = World0("_id").view
    /\ reg = World0("_id").reg
    /\ out = NoOut
    /\ \E index \in Indexes : btree = [NoTree EXCEPT !.root = NewTree(index)]
    /\ settings = NoSettings

\* the next document with the index field values a and b
NextDoc(a, b) == TreeDoc(a, b, Len(btree.docs) + 1)

\* tree.insert(doc)
TreeInsert ==
    /\ Len(btree.docs) < MaxDocs
    /\ \E a \in TreeVals, b \in TreeVals :
           btree' = [TreeCall("insert") EXCEPT
                        !.root = treeInsert(btree.root, NextDoc(a, b)),
                        !.docs = Append(btree.docs, NextDoc(a, b)),
                        !.ret = insertReturns(btree.root, NextDoc(a, b))]
    /\ UNCHANGED <<coll, view, reg, out, settings>>

NextBuild == TreeInsert

SpecBuild == InitTree /\ [][NextBuild]_vars

\* the tree built by inserting the documents s[i], s[i+1], ... into t
RECURSIVE BuildFrom(_, _, _)
BuildFrom(t, s, i) ==
    IF i > Len(s) THEN t ELSE BuildFrom(treeInsert(t, s[i]), s, i + 1)

\* the documents s in the order p
Permuted(s, p) == [i \in 1..Len(s) |-> s[p[i]]]

\* document x does not come after document y under the index: field by
\* field, each in its own direction
RECURSIVE Precedes(_, _, _)
Precedes(index, x, y) ==
    IF index = <<>> THEN TRUE
    ELSE IF x[index[1].key] = y[index[1].key] THEN Precedes(Tail(index), x, y)
    ELSE IF index[1].val = 1 THEN x[index[1].key] < y[index[1].key]
    ELSE x[index[1].key] > y[index[1].key]

SortedUnder(index, s) ==
    \A i \in 1..Len(s), j \in 1..Len(s) : i < j => Precedes(index, s[i], s[j])

\* C18: whatever the order in which the documents were inserted one at a
\* time, inOrder() is the same sequence, and it is sorted under the index.
C18_InOrder ==
    /\ SortedUnder(btree.root.index, inOrder(btree.root))
    /\ \A p \in Permutations(1..Len(btree.docs)) :
           inOrder(BuildFrom(NewTree(btree.root.index), Permuted(btree.docs, p), 1))
               = inOrder(btree.root)

----------------------------------------------------------------------------
(* BinaryTree: single and batch inserts, and lookups *)

\* tree.insert([doc, doc])
TreeInsertArray ==
    /\ Len(btree.docs) + 2 <= MaxDocs
    /\ \E a1 \in TreeVals, b1 \in TreeVals, a2 \in TreeVals, b2 \in TreeVals :
           btree' = BatchResult(<<NextDoc(a1, b1),
                                  TreeDoc(a2, b2, Len(btree.docs) + 2)>>)
    /\ UNCHANGED <<coll, view, reg, out, settings>>

\* tree.lookup(query)
TreeLookup ==
    /\ \E qry \in TreeQueries :
           btree' = IF LookupThrows(btree.root, qry)
                    THEN [TreeCall("lookup") EXCEPT !.query = qry, !.ret = "TypeError"]
                    ELSE [TreeCall("lookup") EXCEPT !.query = qry,
                                                    !.ret = lookup(btree.root, qry).err,
                                                    !.arr = lookup(btree.root, qry).arr]
    /\ UNCHANGED <<coll, view, reg, out, settings>>

NextTree ==
    \/ TreeInsert
    \/ TreeInsertArray
    \/ TreeLookup

SpecTree == InitTree /\ [][NextTree]_vars

\* C19: insert(array) with an array of well-formed documents returns all of
\* them in inserted and none in failed, on an empty tree and on a tree that
\* holds documents.
C19_BatchResult ==
    btree.op = "insert(array)" =>
        /\ btree.arr = btree.val
        /\ btree.failed = <<>>

\* document d has the query's value on every index field the query has
Matches(index, qry, d) ==
    \A i \in 1..Len(index) :
        qry[index[i].key] # Undefined => d[index[i].key] = qry[index[i].key]

\* the documents of s that match the query, in the order of s
RECURSIVE Matching(_, _, _)
Matching(index, qry, s) ==
    IF s = <<>> THEN <<>>
    ELSE (IF Matches(index, qry, Head(s)) THEN <<Head(s)>> ELSE <<>>)
         \o Matching(index, qry, Tail(s))

\* C20: lookup(query) returns the documents of inOrder() that have the
\* query's value on each index field the query constrains, the value 0
\* included, and all the documents when it constrains none.
C20_Lookup ==
    btree.op = "lookup" =>
        /\ btree.ret # "TypeError"
        /\ btree.arr = Matching(btree.root.index, btree.query, inOrder(btree.root))

----------------------------------------------------------------------------
(* BinaryTree: documents that lack index fields *)

\* tree.insert(doc), doc with or without the fields a and b
TreeInsertSparse ==
    /\ Len(btree.docs) < MaxDocs
    /\ \E a \in TreeVals \cup {Undefined}, b \in TreeVals \cup {Undefined} :
           btree' = [TreeCall("insert") EXCEPT
                        !.root = treeInsert(btree.root, NextDoc(a, b)),
                        !.docs = Append(btree.docs, NextDoc(a, b)),
                        !.ret = insertReturns(btree.root, NextDoc(a, b))]
    /\ UNCHANGED <<coll, view, reg, out, settings>>

NextSparse == TreeInsertSparse

SpecSparse == InitTree /\ [][NextSparse]_vars

\* the documents of s without a value at key come before those with one
UndefinedFirst(s, key) ==
    \A i \in 1..Len(s), j \in 1..Len(s) :
        (s[i][key] = Undefined /\ s[j][key] # Undefined) => i < j

\* C21: under an ascending first index field, undefined compares less than
\* every defined value, and the documents without a value at that field
\* precede the documents with one in inOrder().
C21_UndefinedLess ==
    btree.root.index[1].val = 1 =>
        /\ \A i \in 1..Len(btree.docs), j \in 1..Len(btree.docs) :
               (/\ btree.docs[i][btree.root.index[1].key] = Undefined
                /\ btree.docs[j][btree.root.index[1].key] # Undefined)
               => compareFunc(btree.root, btree.docs[i], btree.docs[j]) = -1
        /\ UndefinedFirst(inOrder(btree.root), btree.root.index[1].key)

----------------------------------------------------------------------------
(* The source ReactorIO of a bound view, packet by packet *)

InitGate ==
    \E pk \in PkNames, q \in {NoQuery, QGe(1)} : Starts(BoundView(pk, q, NoOptions))

NextGate ==
    \/ SourceInsert(S1)
    \/ SourceInsertBatch(S1)
    \/ SourceRemove(S1)

SpecGate == InitGate /\ [][NextGate]_vars

\* the last call made S1 send a packet of this type first
SourceSent(type) ==
    /\ out.sent # <<>>
    /\ out.sent[1][1] = S1
    /\ out.sent[1][2].type = type

\* the documents of the packet S1 sent that match the query of view 1
Survivors == Filter(out.sent[1][2].data, view[1].query, coll[Priv(1)].pk)

\* C22: for an insert packet of the source, the handler of a view with a
\* query receives one insert packet with exactly the documents that match,
\* in their order, or nothing when none matches.
C22_GatedInsert ==
    (Gated(World, 1) /\ SourceSent("insert")) =>
        out.packets = IF Survivors = <<>> THEN <<>>
                      ELSE <<<<1, InsertPacket(Survivors, out.sent[1][2].single)>>>>

\* an array of two documents was inserted and one of them went on to the view
C22_Witness ==
    /\ Gated(World, 1)
    /\ SourceSent("insert")
    /\ Len(out.sent[1][2].data) = 2
    /\ Len(out.packets) = 1
    /\ Len(out.packets[1][2].data) = 1

\* the diff the update branch computes in a step: view 1's private data
\* before the step against the subset of the source after its update
StepDiff ==
    Diff(coll[Priv(1)].data,
         CollFind([World EXCEPT !.coll = coll'], S1, view[1].query, view[1].options))

\* the packets that reflect a diff: the insert part, one update per
\* document of the update part, the remove part
DiffPackets(diff, pk) ==
    (IF diff.insert # <<>> THEN <<InsertPacket(diff.insert, FALSE)>> ELSE <<>>)
    \o [i \in 1..Len(diff.update) |->
           UpdatePacket(QField(pk, diff.update[i].k), Upd(diff.update[i].n))]
    \o (IF diff.remove # <<>>
        THEN <<RemovePacket(QOr(pk, KeysOf(diff.remove)))>> ELSE <<>>)

\* the packets view 1 received, remove packets without their query
ReceivedShape(ps) ==
    [i \in 1..Len(ps) |-> IF ps[i][2].type = "remove"
                          THEN RemovePacket(NoQuery) ELSE ps[i][2]]

DiffShape(diff, pk) ==
    [i \in 1..Len(DiffPackets(diff, pk)) |->
        IF DiffPackets(diff, pk)[i].type = "remove"
        THEN RemovePacket(NoQuery) ELSE DiffPackets(diff, pk)[i]]

\* C23: for an update packet of the source, a view with a query receives the
\* original packet when the diff is empty in its insert, update and remove
\* parts, and otherwise the packets that reflect the diff in its place.
C23_GatedUpdate ==
    [][(/\ Gated(World, 1)
        /\ view[1].from = S1
        /\ out'.err = ""
        /\ out'.sent # <<>>
        /\ out'.sent[1][1] = S1
        /\ out'.sent[1][2].type = "update")
       => IF StepDiff.insert = <<>> /\ StepDiff.update = <<>> /\ StepDiff.remove = <<>>
          THEN out'.packets = <<<<1, out'.sent[1][2]>>>>
          ELSE ReceivedShape(out'.packets) = DiffShape(StepDiff, coll[Priv(1)].pk)]_vars

\* the remove packets among the packets view 1 received
RemovesReceived(ps) == SelectSeq(ps, LAMBDA e : e[1] = 1 /\ e[2].type = "remove")

\* C24: when the diff of an update step has documents to remove, the view
\* receives one remove packet whose $or has a clause {pk: doc[pk]} for each
\* of them under the primary-key field of the view, and afterwards none of
\* them is in the private data.
C24_RemoveByPk ==
    [][(/\ Gated(World, 1)
        /\ view[1].from = S1
        /\ out'.err = ""
        /\ out'.sent # <<>>
        /\ out'.sent[1][1] = S1
        /\ out'.sent[1][2].type = "update"
        /\ StepDiff.remove # <<>>)
       => /\ Len(RemovesReceived(out'.packets)) = 1
          /\ RemovesReceived(out'.packets)[1][2].query
                 = QOr(coll[Priv(1)].pk, KeysOf(StepDiff.remove))
          /\ \A i \in 1..Len(StepDiff.remove) :
                 ~HasKey(coll'[Priv(1)].data, StepDiff.remove[i].k)]_vars

----------------------------------------------------------------------------
(* Packets the source ReactorIO lets through as they are *)

\* collection.insert(doc) on S1 while neither S1 nor the view holds a document
InsertEmpty == coll[Priv(1)].data = <<>> /\ FirstInsert

NextPass ==
    \/ InsertEmpty
    \/ SourceUpdate(S1)
    \/ SourceRemove(S1)
    \/ SourceSetData(S1)
    \/ SourcePrimaryKey(S1)
    \/ ViewDrop
    \/ UseFrom

SpecPass == InitGate /\ [][NextPass]_vars

\* packet types the transform function has no branch for
Unhandled == {"setData", "remove", "primaryKey"}

\* the last call made S1 send a packet into the ReactorIO of view 1, and the
\* transform function answers false to it
PassedOn ==
    /\ out.sent # <<>>
    /\ out.sent[1][1] = S1
    /\ IoLive(World, SourceIoOf(1))
    /\ ~Gated(World, 1) \/ out.sent[1][2].type \in Unhandled

\* C25: a packet the source sends into the view's ReactorIO while the view
\* has no query or is dropped, and a setData, remove or primaryKey packet
\* when it has a query, reaches the view's chain handler unchanged, exactly
\* once, and nothing else reaches it, whatever the handler then does with it.
C25_PassThrough ==
    PassedOn => out.packets = <<<<1, out.sent[1][2]>>>>

\* an insert packet passed the ReactorIO of a dropped view that from() had
\* bound to S1 again
C25_Witness ==
    /\ PassedOn
    /\ out.packets = <<<<1, out.sent[1][2]>>>>
    /\ isDropped(World, 1)
    /\ out.sent[1][2].type = "insert"

\* a remove packet passed a view with a query
PassedQuery ==
    /\ PassedOn
    /\ out.packets = <<<<1, out.sent[1][2]>>>>
    /\ Gated(World, 1)
    /\ out.sent[1][2].type = "remove"

\* an update packet passed a live view without a query
PassedNoQuery ==
    /\ PassedOn
    /\ out.packets = <<<<1, out.sent[1][2]>>>>
    /\ ~isDropped(World, 1)
    /\ view[1].query = NoQuery
    /\ out.sent[1][2].type = "update"

----------------------------------------------------------------------------
(* The ordered insert, document by document *)

\* data after each document of arr, from the i-th on, is spliced in at the
\* index activeBucket.insert returns for it
RECURSIVE SplicedEach(_, _, _, _)
SplicedEach(data, b, arr, i) ==
    IF i > Len(arr) THEN data
    ELSE SplicedEach(SpliceIn(data, BucketIndex(b, arr[i]), arr[i]),
                     BucketInsert(b, arr[i]), arr, i + 1)

\* C26: under $orderBy an insert packet with k documents adds exactly k
\* documents to the private data, each one spliced in on its own at the
\* index activeBucket.insert returned for it.
C26_OrderedInsert ==
    [][(/\ Ordered(World, 1)
        /\ out'.err = ""
        /\ out'.packets # <<>>
        /\ out'.packets[1][2].type = "insert")
       => /\ Len(coll'[Priv(1)].data)
                 = Len(coll[Priv(1)].data) + Len(out'.packets[1][2].data)
          /\ coll'[Priv(1)].data
                 = SplicedEach(coll[Priv(1)].data, view[1].bucket,
                               out'.packets[1][2].data, 1)]_vars

----------------------------------------------------------------------------
(* What the callback of drop() finds *)

\* the step is view.drop(callback) on the view v
DropsWithCallback(v) ==
    /\ view[v].exists
    /\ Becomes(drop(Begin("drop", v), v, TRUE))

\* C27: on the first drop(cb) the callback is invoked once with (false, true);
\* when it runs the state is dropped, the source IO, the private data and a
\* distinct public data are dropped, the registry no longer holds the view
\* and the drop event has been emitted, and the view still holds every
\* reference it held before the call.
C27_DropSequence ==
    [][\A v \in ViewIds :
          (~isDropped(World, v) /\ DropsWithCallback(v))
          => /\ out'.callbacks = 1
             /\ out'.seen.args = <<FALSE, TRUE>>
             /\ out'.seen.state = "dropped"
             /\ out'.seen.io
             /\ view[v].priv => out'.seen.priv
             /\ view[v].pubRef => out'.seen.pub
             /\ ~out'.seen.registered
             /\ out'.seen.events = 1
             /\ out'.seen.from = view[v].from
             /\ out'.seen.refs = HeldRefs(World, v)
             /\ HeldRefs(World', v) = {}]_vars

----------------------------------------------------------------------------
(* db.view(name) and the registry *)

\* the step is db.view(n)
CallsDbView(n) ==
    /\ reg[n] # 0 \/ CanCreate
    /\ Becomes(DbView(Begin("Db.view", 0), n))

\* C28: db.view(n) returns the view the registry holds under n and emits
\* nothing, or, when the registry holds none, constructs one unbound view,
\* registers it under n and emits one create event; either way the registry
\* then holds the returned view under n, and only db.view and drop change the
\* registry, so a repeated call returns the same instance without a second
\* create event.
C28_DbView ==
    [][/\ \A n \in Names :
            CallsDbView(n)
            => /\ out'.err = ""
               /\ reg'[n] = out'.v
               /\ \A m \in Names \ {n} : reg'[m] = reg[m]
               /\ IF reg[n] # 0
                  THEN /\ out'.v = reg[n]
                       /\ out'.creates = 0
                       /\ view' = view
                  ELSE /\ ~view[out'.v].exists
                       /\ view'[out'.v].exists
                       /\ view'[out'.v].name = n
                       /\ view'[out'.v].from = None
                       /\ ~view'[out'.v].ioRef
                       /\ out'.creates = 1
                       /\ \A u \in ViewIds \ {out'.v} : view'[u] = view[u]
       /\ reg' # reg => out'.op \in {"Db.view", "drop"}]_vars

\* db.view(n) has returned the view an earlier db.view(n) constructed
C28_Witness ==
    /\ out.op = "Db.view"
    /\ out.creates = 0
    /\ out.v # 0
    /\ \E n \in Names : reg[n] = out.v
    /\ ~isDropped(World, out.v)

----------------------------------------------------------------------------
(* queryAdd, key by key *)

InitMerge ==
    /\ coll = World0("_id").coll
    /\ view = World0("_id").view
    /\ reg = World0("_id").reg
    /\ out = NoOut
    /\ btree = NoTree
    /\ \/ settings = NoSettings
       \/ \E qry \in QueryObjects :
              settings = [NoSettings EXCEPT !.query = qry, !.hasQuery = TRUE]

\* view.queryAdd(obj), view.queryAdd(obj, true), view.queryAdd(obj, false)
DoQueryAdd ==
    /\ \E obj \in QueryObjects, overwrite \in Overwrites :
           settings' = QueryAddKeys(settings, obj, overwrite)
    /\ UNCHANGED <<coll, view, reg, out, btree>>

\* view.queryRemove(obj)
DoQueryRemove ==
    /\ \E obj \in QueryObjects : settings' = QueryRemoveKeys(settings, obj)
    /\ UNCHANGED <<coll, view, reg, out, btree>>

NextMerge ==
    \/ DoQueryAdd
    \/ DoQueryRemove

SpecMerge == InitMerge /\ [][NextMerge]_vars

\* C29: after queryAdd(patch, overwrite) a key of patch that the query did
\* not have holds the patch value; a key the query had holds the patch value
\* when overwrite is omitted or true and its old value when overwrite is
\* false; a key patch does not name holds its old value.
C29_QueryAdd ==
    settings.op = "queryAdd"
    => \A i \in QueryKeys :
          settings.query[i] =
              IF settings.obj[i] = Undefined THEN settings.before[i]
              ELSE IF settings.before[i] = Undefined THEN settings.obj[i]
              ELSE IF settings.overwrite \in {Omitted, "true"} THEN settings.obj[i]
              ELSE settings.before[i]

\* queryAdd with overwrite false has added one key and kept another the
\* patch named with a different value
C29_Witness ==
    /\ settings.op = "queryAdd"
    /\ settings.overwrite = "false"
    /\ \E i, j \in QueryKeys :
          /\ settings.before[i] = Undefined
          /\ settings.obj[i] # Undefined
          /\ settings.query[i] = settings.obj[i]
          /\ settings.before[j] # Undefined
          /\ settings.obj[j] \notin {Undefined, settings.before[j]}
          /\ settings.query[j] = settings.before[j]

----------------------------------------------------------------------------
(* query(q, o, refresh) on a bound view *)

QueryArgs == {NoQuery, QGe(1), QLe(1)}
OptionArgs == {NoOptions, Options(1), Options(-1)}

\* the step is view.query(q, o, refresh) on view 1
CallsQuery(q, o, doRefresh) == Becomes(query(Begin("query", 1), 1, q, o, doRefresh))

\* view.query(q, o), view.query(q, o, false) and view.query() on view 1
DoQuery ==
    /\ view[1].exists
    /\ \E q \in QueryArgs, o \in OptionArgs, doRefresh \in BOOLEAN :
           CallsQuery(q, o, doRefresh)

\* collection.insert([doc, doc]) on the empty source S1
FirstBatch == coll[S1].data = <<>> /\ SourceInsertBatch(S1)

NextQuery ==
    \/ FirstBatch
    \/ DoQuery

SpecQuery == InitGate /\ [][NextQuery]_vars

\* C30: query(q, o, refresh) on a bound view stores the settings given; with
\* refresh omitted or true the private data then equals source.find under the
\* new settings, with refresh false the private data is what it was; a call
\* with neither a query nor options changes nothing and sends no packet.
C30_RefreshFlag ==
    [][\A q \in QueryArgs, o \in OptionArgs, doRefresh \in BOOLEAN :
          (view[1].from = S1 /\ ~isDropped(World, 1) /\ CallsQuery(q, o, doRefresh))
          => IF q = NoQuery /\ o = NoOptions
             THEN /\ coll' = coll
                  /\ view' = view
                  /\ out'.sent = <<>>
             ELSE /\ out'.err = ""
                  /\ view'[1].query = (IF q # NoQuery THEN q ELSE view[1].query)
                  /\ view'[1].options = (IF o # NoOptions THEN o ELSE view[1].options)
                  /\ coll'[Priv(1)].data =
                         IF doRefresh
                         THEN CollFind(World, S1, view'[1].query, view'[1].options)
                         ELSE coll[Priv(1)].data]_vars

\* query(q, o, false) has left the private data different from what the
\* source finds under the new settings
C30_Witness ==
    /\ out.op = "query"
    /\ out.err = ""
    /\ out.sent = <<>>
    /\ view[1].query = QLe(1)
    /\ coll[Priv(1)].data # CollFind(World, S1, view[1].query, view[1].options)

----------------------------------------------------------------------------
(* The transform settings of a bound view, switched on, off and changed *)

\* view.transform({dataIn: f}) and view.transform({dataOut: g}) on view 1
ChangeTransform ==
    /\ ~isDropped(World, 1)
    /\ \E f \in {"id", "inc"} :
          \/ Becomes(transform(Begin("transform", 1), 1, "undef", f, "none"))
          \/ Becomes(transform(Begin("transform", 1), 1, "undef", "none", f))

NextPublic ==
    \/ FirstInsert
    \/ EnableTransform
    \/ DisableTransform
    \/ ChangeTransform
    \/ ViewDrop

SpecPublic == InitSource /\ [][NextPublic]_vars

\* C31: on a view that is not dropped publicData() is the public collection
\* when transforms are enabled and the private collection otherwise, and the
\* collection it returns is there and not dropped; while transforms are
\* enabled the mirror IO is in the chain of the private collection, and a
\* transform call that leaves them enabled ends with
\* publicData.setData(privateData.find()); while they are disabled the view
\* holds no public collection and no mirror IO is left in a chain.
C31_PublicData ==
    (view[1].exists /\ ~isDropped(World, 1))
    => /\ publicData(World, 1) = IF view[1].tEnabled THEN Pub(1) ELSE Priv(1)
       /\ ~coll[publicData(World, 1)].dropped
       /\ view[1].tEnabled
              => /\ IoLive(World, MirrorIoOf(1))
                 /\ out.op = "transform"
                        => /\ out.sent # <<>>
                           /\ out.sent[Len(out.sent)]
                                  = <<Pub(1), SetDataPacket(coll[Priv(1)].data)>>
       /\ ~view[1].tEnabled
              => /\ ~view[1].pubRef
                 /\ ~IoLive(World, MirrorIoOf(1))

\* transforms are enabled over a private collection that holds a document
C31_Witness ==
    /\ out.op = "transform"
    /\ view[1].tEnabled
    /\ ~isDropped(World, 1)
    /\ coll[Priv(1)].data # <<>>
    /\ coll[Pub(1)].data # <<>>
    /\ publicData(World, 1) = Pub(1)

----------------------------------------------------------------------------
(* Queries with $findSub and $findSubOne that name no $from *)

\* collection.view(name, {$findSub: {}}): the query goes through the constructor
NewViewSub ==
    \E c \in SrcColls, n \in Names, t \in SubQueries :
        /\ Live(c)
        /\ CanCreate
        /\ Becomes(CollectionView(Begin("new View(sub)", 0), c, n, QSub(t, ""), NoOptions))

\* view.query({$findSub: {}}) on a view that db.view made
QuerySub ==
    \E v \in Created, t \in SubQueries, doRefresh \in BOOLEAN :
        /\ ~isDropped(World, v)
        /\ Becomes(query(Begin("query(sub)", v), v, QSub(t, ""), NoOptions, doRefresh))

\* view.queryData({$findSub: {}}) on a view that db.view made
QueryDataSub ==
    \E v \in Created, t \in SubQueries, doRefresh \in BOOLEAN :
        /\ ~isDropped(World, v)
        /\ Becomes(queryData(Begin("queryData(sub)", v), v, QSub(t, ""), NoOptions,
                             doRefresh))

NextSub ==
    \/ DoDbView
    \/ DoDrop
    \/ NewViewSub
    \/ QuerySub
    \/ QueryDataSub

SpecSub == Init /\ [][NextSub]_vars

\* C32: a call that gives the view a query with $findSub or $findSubOne and
\* no $from, through the constructor, query() or queryData(), completes
\* without error and leaves $from set to the name of the view's private
\* collection.
C32_FromInjected ==
    out.op \in {"new View(sub)", "query(sub)", "queryData(sub)"}
    => /\ out.err = ""
       /\ out.v # 0
       /\ view[out.v].query.t \in SubQueries
       /\ view[out.v].query.f = PrivateName(World, out.v)

----------------------------------------------------------------------------
(* The active bucket of an ordered view under every kind of packet and under
   queryOptions and orderBy *)

\* view.queryOptions(o), view.queryOptions(o, false) and view.queryOptions()
\* on view 1
DoQueryOptions ==
    /\ view[1].exists
    /\ \E o \in OptionArgs, doRefresh \in BOOLEAN :
           Becomes(queryOptions(Begin("queryOptions", 1), 1, o, doRefresh))

\* view.orderBy({n: 1}) and view.orderBy({n: -1}) on view 1
DoOrderBy ==
    /\ view[1].exists
    /\ \E val \in {1, -1} : Becomes(orderBy(Begin("orderBy", 1), 1, val))

NextBucket ==
    \/ SourceInsert(S1)
    \/ SourceUpdate(S1)
    \/ SourceRemove(S1)
    \/ SourceSetData(S1)
    \/ DoQueryOptions
    \/ DoOrderBy

SpecBucket == InitOrdered /\ [][NextBucket]_vars

\* C33: the active bucket of an ordered view tracks exactly the documents of
\* the private data: as many entries as the data has documents, and the same
\* documents.
C33_BucketTracks ==
    Ordered(World, 1)
    => /\ view[1].bucket.present
       /\ Len(view[1].bucket.items) = Len(coll[Priv(1)].data)
       /\ BagOf(view[1].bucket.items) = BagOf(coll[Priv(1)].data)

----------------------------------------------------------------------------
(* Whose registry entry a drop removes *)

\* C34: a registry entry disappears only in the drop() of the view it maps
\* to; the drop of another view with the same name leaves it in place.
C34_OwnEntryOnly ==
    [][\A n \in Names :
          (reg[n] # 0 /\ reg'[n] # reg[n])
          => /\ out'.op = "drop"
             /\ out'.v = reg[n]]_vars

----------------------------------------------------------------------------
(* The primary key of the private data *)

\* C35: while the view is bound to S1 the primary key of its private data
\* is the primary key of S1, also after S1 was given another primary key.
C35_SamePrimaryKey ==
    (view[1].from = S1 /\ ~isDropped(World, 1))
    => coll[Priv(1)].pk = coll[S1].pk

----------------------------------------------------------------------------
(* Paging on a view without a source *)

PageCounts == {Undefined} \cup 0..MaxPage

InitPage ==
    /\ coll = World0("_id").coll
    /\ view = World0("_id").view
    /\ reg = World0("_id").reg
    /\ out = NoOut
    /\ btree = NoTree
    /\ \E pages \in PageCounts : settings = [NoSettings EXCEPT !.pages = pages]

\* view.page(n) with n >= 0
DoPage ==
    /\ \E n \in 0..MaxPage : settings' = Paged(page(settings, n), "page")
    /\ UNCHANGED <<coll, view, reg, out, btree>>

\* view.pageFirst()
DoPageFirst ==
    /\ settings' = Paged(pageFirst(settings), "pageFirst")
    /\ UNCHANGED <<coll, view, reg, out, btree>>

\* view.pageLast()
DoPageLast ==
    /\ settings' = Paged(pageLast(settings), "pageLast")
    /\ UNCHANGED <<coll, view, reg, out, btree>>

\* view.pageScan(delta); the model stops at page MaxPage
DoPageScan ==
    /\ \E delta \in (0 - MaxPage)..MaxPage :
          /\ pageScan(settings, delta).page <= MaxPage
          /\ settings' = Paged(pageScan(settings, delta), "pageScan")
    /\ UNCHANGED <<coll, view, reg, out, btree>>

\* view.cursor({pages: n})
DoCursor ==
    /\ \E pages \in PageCounts : settings' = [settings EXCEPT !.pages = pages, !.op = "cursor"]
    /\ UNCHANGED <<coll, view, reg, out, btree>>

NextPage ==
    \/ DoPage
    \/ DoPageFirst
    \/ DoPageLast
    \/ DoPageScan
    \/ DoCursor

SpecPage == InitPage /\ [][NextPage]_vars

\* C36: options.$page is never negative, and after pageScan or pageLast with
\* cursor().pages >= 1 it is at most pages - 1.
C36_PageRange ==
    settings.hasPage
    => /\ settings.page >= 0
       /\ (settings.op \in {"pageScan", "pageLast"} /\ settings.pages >= 1)
              => settings.page <= settings.pages - 1

----------------------------------------------------------------------------
(* What the sink of the mirror ReactorIO receives *)

\* the packets of a log that belong to the node c, in order
PacketsOf(log, c) == SelectSeq(log, LAMBDA e : e[1] = c)

\* C37: with transforms enabled the sink of the mirror ReactorIO receives
\* each packet the private data sent once: it receives as many packets as
\* the private data sent.
C37_MirroredOnce ==
    (view[1].tEnabled /\ ~isDropped(World, 1) /\ out.err = "")
    => Len(PacketsOf(out.forwarded, Pub(1))) = Len(PacketsOf(out.sent, Priv(1)))

----------------------------------------------------------------------------
(* BinaryTree: nothing lost, nothing doubled *)

\* how often the document d occurs in s
Times(s, d) == Cardinality({i \in 1..Len(s) : s[i] = d})

\* documents x and y have the same value on every field of the index
SameKey(index, x, y) == \A i \in 1..Len(index) : x[index[i].key] = y[index[i].key]

\* C38: after single-document inserts inOrder() holds every inserted
\* document exactly once, so it is as long as the number of inserts, and
\* documents equal on every index field come in the order they were inserted.
C38_Conserved ==
    /\ Len(inOrder(btree.root)) = Len(btree.docs)
    /\ \A i \in 1..Len(btree.docs) : Times(inOrder(btree.root), btree.docs[i]) = 1
    /\ \A i \in 1..Len(btree.docs), j \in 1..Len(btree.docs) :
           (/\ SameKey(btree.root.index, inOrder(btree.root)[i], inOrder(btree.root)[j])
            /\ i < j)
           => inOrder(btree.root)[i].id < inOrder(btree.root)[j].id

\* three documents were inserted, two of them equal on every index field,
\* under an index of two levels
C38_Witness ==
    /\ Len(btree.docs) = 3
    /\ Len(btree.root.index) = 2
    /\ SameKey(btree.root.index, btree.docs[1], btree.docs[3])
    /\ ~SameKey(btree.root.index, btree.docs[1], btree.docs[2])
    /\ Len(inOrder(btree.root)) = 3

----------------------------------------------------------------------------
(* Writes and refresh() on a view that has no source *)

NextUnbound ==
    \/ DoDbView
    \/ FirstInsert
    \/ DropSource
    \/ UseInsert
    \/ UseUpdate
    \/ UseUpdateById
    \/ UseRemove
    \/ UseRefresh

SpecUnbound == InitSource /\ [][NextUnbound]_vars

WriteOps == {"insert", "update", "updateById", "remove"}

\* a view that exists, is not dropped and has no source
Unbound(v) == view[v].exists /\ ~isDropped(World, v) /\ view[v].from = None

\* C39: on a view that is not dropped and has no source, insert, update,
\* updateById and remove raise no error and change no collection, and
\* refresh() raises no error and leaves the private data unchanged.
C39_UnboundWrites ==
    [][\A v \in ViewIds :
          (Unbound(v) /\ out'.v = v) =>
              /\ out'.op \in WriteOps => (out'.err = "" /\ coll' = coll)
              /\ out'.op = "refresh" =>
                    (out'.err = "" /\ coll'[Priv(v)].data = coll[Priv(v)].data)]_vars

\* on a view that is not dropped and has no source refresh() raises no error
\* and leaves the private data unchanged
RefreshUnbound ==
    [][\A v \in ViewIds :
          (Unbound(v) /\ out'.v = v /\ out'.op = "refresh") =>
              (out'.err = "" /\ coll'[Priv(v)].data = coll[Priv(v)].data)]_vars

\* C40: while transforms are enabled on a view that is not dropped, the
\* dataIn and dataOut functions transform() reports are the ones set on the
\* public collection, and a transform call ends with the public collection
\* holding the projection of the private data under the reported dataIn.
C40_Reconfigured ==
    (view[1].exists /\ ~isDropped(World, 1) /\ view[1].tEnabled)
    => /\ coll[Pub(1)].tIn = view[1].tIn
       /\ coll[Pub(1)].tOut = view[1].tOut
       /\ out.op = "transform"
              => coll[Pub(1)].data = TransformAll(view[1].tIn, coll[Priv(1)].data)

====
